---- MODULE Spec2Model ----
(***************************************************************************)
(* A model of the Stata .dta codec of pandas/io/stata.py.                  *)
(*                                                                         *)
(*   Spec        a StataReader session: construction (header parsing),     *)
(*               read / __next__ / get_chunk, value_labels, close          *)
(*   SpecWriter  StataWriter / StataWriter117 / StataWriterUTF8            *)
(*               write_file, one action per call it makes                  *)
(*   SpecNames   StataWriter._check_column_names on a list of column names *)
(*                                                                         *)
(* An optional Python value is a sequence: <<>> is None, <<v>> is v.       *)
(***************************************************************************)
EXTENDS Integers, Sequences, FiniteSets, TLC

\* ---------------------------------------------------------------- bounds
MaxObs == 3
MaxChunk == 2

VARIABLES
    \* the file the reader is given and the reader's constructor arguments
    fileVersion,            \* the version field of the header
    nobs,                   \* observation count of the header
    typlist,                \* per column: "b" (int8) | "h" (int16) | "Q" (strL)
    chunksize,              \* <<>> or <<k>>
    convert_categoricals,   \* constructor argument
    fault,                  \* which conversion of a chunk fails, if any
    \* the StataReader object (a record of its attributes)
    reader,
    \* observation of the session
    last,                   \* the last call and what it returned or raised
    onlyNext,               \* only __next__ has been called so far
    chunks,                 \* the tables the __next__ calls returned so far
    \* the writer's constructor arguments and its environment
    dta_version,            \* 114 (StataWriter), 117, 118 or 119
    target,                 \* fname: "path" | "compressed path" | "buffer"
    nvar,                   \* columns of the table written
    wnobs,                  \* rows of the table written
    ncat,                   \* categorical columns (value-label tables)
    wfault,                 \* the statement of the write that raises, if any
    unlink_fails,           \* os.unlink raises OSError
    flush_fails,            \* self._file.flush() raises OSError
    \* the StataWriter object and the output
    wpc,                    \* "new", the next call of write_file, or its end
    handle,                 \* the caller's buffer or the file opened: state
    own_file,               \* _own_file
    output_file,            \* _output_file is set (compressed output)
    pos,                    \* self._file.tell()
    written,                \* the writes to self._file, in order
    map,                    \* _map
    flushed,                \* flush() of the output has returned
    disk,                   \* the file at fname: "none"|"exists"|"deleted"
    exc,                    \* the exception a call of write_file raised
    raised,                 \* the exception that left the writer
    warned,                 \* the ResourceWarning was issued
    \* the column-name check of the writer
    columns_in,             \* list(data.columns): the labels of the table
    dates_in,               \* the keys of the convert_dates argument
    checked,                \* what _check_column_names left, once called
    rechecked,              \* the same for a writer given the names it left
    \* the strL columns of a table, written and read back
    strl_version,           \* 117, 118 or 119
    byteorder,              \* the byte order of the file: "<" or ">"
    native,                 \* sys.byteorder of the machine: "<" or ">"
    place,                  \* <<frame column, row>> of the first cell sampled
    cells,                  \* the sampled cells of the strL columns, by row
    spc,                    \* "new", "converted", "written", "read", "inserted"
    gso_table,              \* StataStrLWriter._gso_table, in insertion order
    keys,                   \* the keys generate_table puts in the cells
    blob,                   \* the GSO records of generate_blob
    cell_bytes,             \* the 8 bytes of every cell in the file
    GSO,                    \* StataReader.GSO
    strl_out,               \* the column after _insert_strls, or its error
    \* the table of missing values, and a column converted with it
    mpc,                    \* the loop of the class body that runs, and where
    MISSING_VALUES,         \* StataMissingValue.MISSING_VALUES
    float32_base,           \* the bytes float32_base
    float64_base,           \* the bytes float64_base
    BASE_MISSING_VALUES,    \* StataMissingValue.BASE_MISSING_VALUES
    sentinels,              \* the kind, bytes and label of every entry made
    converted,              \* the last cell given to _do_convert_missing
    \* an integer column given to _cast_to_stata_types
    column,                 \* its dtype, data[col].min() and data[col].max()
    casted,                 \* the dtype of the column returned, and the warning
    \* the type codes of a header
    format_version,         \* the version field of the file
    raw_typlist,            \* the type codes as the file holds them
    schema,                 \* the typlist and dtyplist made of them, or the error
    \* a field given to one of the padding helpers
    pad_name,               \* the source: a str or bytes, and its code points
    pad_length,             \* the length asked for
    padded,                 \* the helper called and what it returned or raised
    \* an elapsed count decoded to a date and encoded again
    date_fmt,               \* "%tw", "%tm", "%tq", "%th" or "%ty"
    sif,                    \* the count of the file (Stata internal format)
    conv_dates,             \* the date the reader makes of it, or its error
    elapsed,                \* the count the writer makes of that date
    \* a categorical column given to a writer
    catarray,               \* its categories, in order, and the encoding
    svl,                    \* the StataValueLabel of the column, or its error
    lstream,                \* the output of the writer: "none" until opened
    lbytes                  \* the bytes of the table written to the output

fileVars == <<fileVersion, nobs, typlist, chunksize, convert_categoricals, fault>>
rvars == <<fileVars, reader, last, onlyNext, chunks>>
wargs == <<dta_version, target, nvar, wnobs, ncat, wfault, unlink_fails,
           flush_fails>>
wvars == <<wargs, wpc, handle, own_file, output_file, pos, written, map,
           flushed, disk, exc, raised, warned>>
cvars == <<columns_in, dates_in, checked, rechecked>>
sargs == <<strl_version, byteorder, native, place, cells>>
svars == <<sargs, spc, gso_table, keys, blob, cell_bytes, GSO, strl_out>>
mvars == <<mpc, MISSING_VALUES, float32_base, float64_base, BASE_MISSING_VALUES,
           sentinels, converted>>
kvars == <<column, casted>>
tvars == <<format_version, raw_typlist, schema>>
pvars == <<pad_name, pad_length, padded>>
dvars == <<date_fmt, sif, conv_dates, elapsed>>
lvars == <<catarray, svl, lstream, lbytes>>
xvars == <<pvars, dvars, lvars>>

\* ------------------------------------------------------------ the reader
None == <<>>
Some(v) == <<v>>

OldVersions == {104, 105, 108, 111, 113, 114, 115}
NewVersions == {117, 118, 119}
\* version fields no reader supports
OtherVersions == {116}

Min(a, b) == IF a <= b THEN a ELSE b

RECURSIVE SumSeq(_)
SumSeq(s) == IF s = <<>> THEN 0 ELSE Head(s) + SumSeq(Tail(s))

\* struct.calcsize(byteorder + fmt) of the column types the model uses
calcsize(typ) == IF typ = "b" THEN 1 ELSE IF typ = "h" THEN 2 ELSE 8

\* np.dtype(dtypes).itemsize: the width of one record
itemsize(tl) == SumSeq([i \in 1..Len(tl) |-> calcsize(tl[i])])

\* _read_header: whether the header of a file whose version field is v parses.
\* Version 104 passes the version test and then fails in _get_time_stamp,
\* which has no branch for it.
ReadHeaderOK(v) ==
    /\ v \in OldVersions \cup NewVersions
    /\ v > 104

\* the statement of the header reading that raises ValueError: the version
\* test with its message _version_error, or the bare raise of _get_time_stamp
HeaderError(v) ==
    IF v \notin OldVersions \cup NewVersions THEN "version" ELSE "time_stamp"

\* the attributes __init__ sets before it opens the stream
NewReader ==
    [state |-> "new", stream |-> "none", lines_read |-> 0,
     value_labels_read |-> FALSE, can_read_value_labels |-> FALSE,
     data_read |-> FALSE, hasGSO |-> FALSE]

\* what a call returned or raised: kind is "table", "dict", "ok" or the
\* exception, why the statement that raised, rem the rows that remained
\* before the call
Outcome(op, nrows, kind, why, rows, strl, rem) ==
    [op |-> op, nrows |-> nrows, kind |-> kind, why |-> why, rows |-> rows,
     strl |-> strl, rem |-> rem]

NoCall == Outcome("none", None, "none", "", <<>>, "none", 0)

\* StataReader.__init__: opens the stream, then parses the header; a header
\* error propagates with the stream left as it is
init(r, v) ==
    [r |-> [r EXCEPT !.stream = "open",
                     !.state = IF ReadHeaderOK(v) THEN "ready" ELSE "failed"],
     out |-> IF ReadHeaderOK(v)
             THEN Outcome("init", None, "ok", "", <<>>, "none", 0)
             ELSE Outcome("init", None, "ValueError", HeaderError(v), <<>>, "none", 0)]

\* StataReader.close
close(r) == [r EXCEPT !.stream = IF r.stream = "none" THEN "none" ELSE "closed"]

\* _read_value_labels raises: it has to seek, and the stream is closed
ReadValueLabelsRaises(r, v) ==
    ~r.value_labels_read /\ v > 108 /\ r.stream = "closed"

\* _read_value_labels, when it does not raise
read_value_labels(r) == [r EXCEPT !.value_labels_read = TRUE]

\* _read_strls raises: its first statement seeks
ReadStrlsRaises(r) == r.stream = "closed"

\* _read_strls, when it does not raise: self.GSO is set
read_strls(r) == [r EXCEPT !.hasGSO = TRUE]

\* _insert_strls: a strL column holds the pooled strings when self.GSO
\* exists, and is returned as read (the keys) when it does not
insert_strls(r, tl) ==
    IF \A i \in 1..Len(tl) : tl[i] # "Q" THEN "none"
    ELSE IF r.hasGSO THEN "strings" ELSE "keys"

\* a reader that numbers the rows of every chunk from 0
RowLabelsRestart(linesAfter, read_lines) ==
    [i \in 1..read_lines |-> i - 1]

\* the row labels of a chunk: np.arange(lines_read - read_lines, lines_read),
\* with lines_read already advanced
RowLabels(linesAfter, read_lines) ==
    [i \in 1..read_lines |-> linesAfter - read_lines + i - 1]

\* a reader that seeks to data_location for every chunk
RowsAtStart(offset, size, read_lines) ==
    [i \in 1..read_lines |-> i - 1]

\* the observations np.frombuffer decodes after seek(data_location + offset)
RowsAt(offset, size, read_lines) ==
    [i \in 1..read_lines |-> (offset \div size) + i - 1]

Table(labels, obs) ==
    [i \in 1..Len(labels) |-> [label |-> labels[i], obs |-> obs[i]]]

\* StataReader.read(nrows), with the reader's own options
read(r, op, nrows, v, n_obs, tl, cc, flt) ==
    LET rem == n_obs - r.lines_read
        out(kind, why, rows, strl) == Outcome(op, nrows, kind, why, rows, strl, rem)
    IN
    IF n_obs = 0 /\ nrows = None
    THEN \* empty file, read as a whole
         [r |-> close([r EXCEPT !.can_read_value_labels = TRUE,
                                !.data_read = TRUE]),
          out |-> out("table", "", <<>>, "none")]
    ELSE
    LET n == IF nrows = None THEN n_obs ELSE nrows[1]
        strls == v >= 117 /\ ~r.value_labels_read
        r1 == IF strls THEN [r EXCEPT !.can_read_value_labels = TRUE] ELSE r
    IN
    IF strls /\ ReadStrlsRaises(r1)
    THEN [r |-> r1, out |-> out("ValueError", "closed file", <<>>, "none")]
    ELSE
    LET r2 == IF strls THEN read_strls(r1) ELSE r1
        size == itemsize(tl)
        max_read_len == (n_obs - r2.lines_read) * size
        read_len == Min(n * size, max_read_len)
    IN
    IF read_len <= 0
    THEN \* nothing to read: the iterator has finished
         IF cc /\ ReadValueLabelsRaises(r2, v)
         THEN [r |-> r2, out |-> out("ValueError", "closed file", <<>>, "none")]
         ELSE [r |-> close(IF cc THEN read_value_labels(r2) ELSE r2),
               out |-> out("StopIteration", "", <<>>, "none")]
    ELSE
    IF r2.stream = "closed"
    THEN \* path_or_buf.seek on a closed file
         [r |-> r2, out |-> out("ValueError", "closed file", <<>>, "none")]
    ELSE
    LET offset == r2.lines_read * size
        read_lines == Min(n, n_obs - r2.lines_read)
        obs == RowsAt(offset, size, read_lines)
        lines == r2.lines_read + read_lines
        r3 == [r2 EXCEPT !.lines_read = lines,
                         !.can_read_value_labels = @ \/ lines = n_obs,
                         !.data_read = @ \/ lines = n_obs]
        r4 == IF cc THEN read_value_labels(r3) ELSE r3
        rows == Table(RowLabels(r4.lines_read, read_lines), obs)
    IN
    IF flt = "columns"
    THEN \* _do_select_columns raises: closed and re-raised
         [r |-> close(r4), out |-> out("ValueError", "columns", <<>>, "none")]
    ELSE IF flt = "dates"
    THEN \* _stata_elapsed_date_to_datetime_vec raises: closed and re-raised
         [r |-> close(r4), out |-> out("ValueError", "dates", <<>>, "none")]
    ELSE IF flt = "labels" /\ cc /\ v > 108
    THEN \* _do_convert_categoricals raises on repeated labels
         [r |-> r4, out |-> out("ValueError", "labels", <<>>, "none")]
    ELSE [r |-> r4, out |-> out("table", "", rows, insert_strls(r4, tl))]

\* StataReader.__next__
next(r, k, v, n_obs, tl, cc, flt) ==
    IF k = None
    THEN [r |-> r, out |-> Outcome("next", None, "ValueError", "chunksize", <<>>,
                                   "none", n_obs - r.lines_read)]
    ELSE read(r, "next", k, v, n_obs, tl, cc, flt)

\* StataReader.get_chunk(size)
get_chunk(r, size, k, v, n_obs, tl, cc, flt) ==
    read(r, "get_chunk", IF size = None THEN k ELSE size, v, n_obs, tl, cc, flt)

\* StataReader.value_labels
value_labels(r, v, n_obs) ==
    IF ReadValueLabelsRaises(r, v)
    THEN [r |-> r, out |-> Outcome("value_labels", None, "ValueError",
                                   "closed file", <<>>, "none",
                                   n_obs - r.lines_read)]
    ELSE [r |-> read_value_labels(r),
          out |-> Outcome("value_labels", None, "dict", "", <<>>, "none",
                          n_obs - r.lines_read)]

\* read_stata: constructs the reader and returns it when iterating; reads
\* the whole file and closes the reader otherwise, and the reader, a local
\* of read_stata, is dropped
read_stata(k, v, n_obs, tl, cc, flt) ==
    LET c == init(NewReader, v) IN
    IF c.r.state = "failed" THEN c
    ELSE IF k # None THEN c
    ELSE LET d == read(c.r, "read_stata", None, v, n_obs, tl, cc, flt)
         IN  [r |-> [close(d.r) EXCEPT !.state = "dropped"], out |-> d.out]

\* ---------------------------------------------------- the reader's session
TypLists(v) ==
    IF v \in NewVersions THEN {<<"h", "b">>, <<"b", "Q">>} ELSE {<<"h", "b">>}

ChunkSizes == {None} \cup {Some(k) : k \in 1..MaxChunk}
NRows == {None} \cup {Some(n) : n \in -1..MaxChunk}
Faults == {"none", "columns", "dates", "labels"}

InitReader ==
    /\ fileVersion \in OldVersions \cup NewVersions \cup OtherVersions
    /\ nobs \in 0..MaxObs
    /\ typlist \in TypLists(fileVersion)
    /\ chunksize \in ChunkSizes
    /\ convert_categoricals \in BOOLEAN
    /\ fault \in Faults
    /\ reader = NewReader
    /\ last = NoCall
    /\ onlyNext = TRUE
    /\ chunks = <<>>

\* the reader and the observation of the session after a call
Return(res, isNext) ==
    /\ reader' = res.r
    /\ last' = res.out
    /\ onlyNext' = (onlyNext /\ isNext)
    /\ chunks' = IF isNext /\ res.out.kind = "table"
                 THEN Append(chunks, [rows |-> res.out.rows, strl |-> res.out.strl])
                 ELSE chunks
    /\ UNCHANGED <<fileVars, wvars, cvars, svars,
                   mvars, kvars, tvars, xvars>>

Construct ==
    /\ reader.state = "new"
    /\ Return(init(reader, fileVersion), TRUE)

ReadStata ==
    /\ reader.state = "new"
    /\ Return(read_stata(chunksize, fileVersion, nobs, typlist,
                         convert_categoricals, fault), chunksize # None)

NextChunk ==
    /\ reader.state = "ready"
    /\ Return(next(reader, chunksize, fileVersion, nobs, typlist,
                   convert_categoricals, fault), TRUE)

Read ==
    /\ reader.state = "ready"
    /\ \E nrows \in NRows :
         Return(read(reader, "read", nrows, fileVersion, nobs, typlist,
                     convert_categoricals, fault), FALSE)

GetChunk ==
    /\ reader.state = "ready"
    /\ \E size \in {None, Some(1)} :
         Return(get_chunk(reader, size, chunksize, fileVersion, nobs, typlist,
                          convert_categoricals, fault), FALSE)

ValueLabels ==
    /\ reader.state = "ready"
    /\ Return(value_labels(reader, fileVersion, nobs), FALSE)

Close ==
    /\ reader.state = "ready"
    /\ reader.stream = "open"
    /\ reader' = close(reader)
    /\ last' = Outcome("close", None, "ok", "", <<>>, "none",
                       nobs - reader.lines_read)
    /\ onlyNext' = FALSE
    /\ UNCHANGED <<fileVars, chunks, wvars, cvars, svars,
                   mvars, kvars, tvars, xvars>>

Next ==
    \/ Construct
    \/ ReadStata
    \/ NextChunk
    \/ Read
    \/ GetChunk
    \/ ValueLabels
    \/ Close


\* ------------------------------------------------------------ the writer
\* StataWriter117._tag: the length of <tag> + val + </tag>
tag(n, name) == n + 2 * Len(name) + 5

Tagged(v) == v >= 117

\* a write_file that writes the map after the schema arrays
WriteFileCallsMapLate ==
    <<"header", "variable_types", "varnames", "sortlist", "formats",
      "value_label_names", "variable_labels", "map", "expansion_fields",
      "characteristics", "prepare_data", "data", "strls", "value_labels",
      "file_close_tag", "map2">>

\* the calls of write_file's try block, in order
WriteFileCalls ==
    <<"header", "map", "variable_types", "varnames", "sortlist", "formats",
      "value_label_names", "variable_labels", "expansion_fields",
      "characteristics", "prepare_data", "data", "strls", "value_labels",
      "file_close_tag", "map2">>

\* the call that follows call c when c returns: "else" after the last
NextCall(c) ==
    LET i == CHOOSE k \in 1..Len(WriteFileCalls) : WriteFileCalls[k] = c
    IN  IF i = Len(WriteFileCalls) THEN "else" ELSE WriteFileCalls[i + 1]

\* the bytes each call of write_file writes.  Every column is an int8 column
\* (one byte a row), the data label is empty, there are no strLs, and a
\* value-label table has one label of one character.
ValueLabelLen(v) == 4 + (IF v <= 117 THEN 33 ELSE 129) + 3 + 4 + 4 + 4 + 4 + 2

SectionLen(c, v, k, n, cats) ==
    IF ~Tagged(v) THEN
        CASE c = "header" -> 1 + 1 + 1 + 1 + 2 + 4 + 81 + 18
          [] c = "variable_types" -> k
          [] c = "varnames" -> 33 * k
          [] c = "sortlist" -> 2 * (k + 1)
          [] c = "formats" -> 49 * k
          [] c = "value_label_names" -> 33 * k
          [] c = "variable_labels" -> 81 * k
          [] c = "expansion_fields" -> 5
          [] c = "data" -> n * k
          [] c = "value_labels" -> cats * ValueLabelLen(v)
          [] OTHER -> 0
    ELSE
        CASE c = "header" ->
                 11 + tag(tag(3, "release") + tag(3, "byteorder")
                          + tag(IF v <= 118 THEN 2 ELSE 4, "K")
                          + tag(IF v = 117 THEN 4 ELSE 8, "N")
                          + tag(IF v = 117 THEN 1 ELSE 2, "label")
                          + tag(18, "timestamp"), "header")
          [] c \in {"map", "map2"} -> tag(14 * 8, "map")
          [] c = "variable_types" -> tag(2 * k, "variable_types")
          [] c = "varnames" -> tag(((IF v = 117 THEN 32 ELSE 128) + 1) * k, "varnames")
          [] c = "sortlist" -> tag((IF v < 119 THEN 2 ELSE 4) * (k + 1), "sortlist")
          [] c = "formats" -> tag((IF v = 117 THEN 49 ELSE 57) * k, "formats")
          [] c = "value_label_names" ->
                 tag(((IF v = 117 THEN 32 ELSE 128) + 1) * k, "value_label_names")
          [] c = "variable_labels" ->
                 tag(((IF v = 117 THEN 80 ELSE 320) + 1) * k, "variable_labels")
          [] c = "characteristics" -> tag(0, "characteristics")
          [] c = "data" -> 6 + n * k + 7
          [] c = "strls" -> tag(0, "strls")
          [] c = "value_labels" ->
                 tag(cats * tag(ValueLabelLen(v), "lbl"), "value_labels")
          [] c = "file_close_tag" -> 12
          [] OTHER -> 0

\* the calls that write nothing: the no-op methods of the class, and the
\* preparation of the records
Writes(c, v, cats) ==
    IF c = "prepare_data" THEN FALSE
    ELSE IF Tagged(v) THEN c # "expansion_fields"
    ELSE /\ c \notin {"map", "map2", "characteristics", "strls", "file_close_tag"}
         /\ (c = "value_labels" => cats > 0)

\* the keys of _map, in the order _write_map creates them
MapTags ==
    <<"stata_data", "map", "variable_types", "varnames", "sortlist", "formats",
      "value_label_names", "variable_labels", "characteristics", "data",
      "strls", "value_labels", "stata_data_close", "end-of-file">>

EmptyMap == [t \in {} |-> 0]

\* a writer whose _update_map leaves the map as it is
update_map_lost(m, t, at) == m

\* StataWriter117._update_map: self._map[tag] = self._file.tell()
update_map(m, t, at) ==
    [x \in DOMAIN m \cup {t} |-> IF x = t THEN at ELSE m[x]]

\* _write_map's first statement: the map is created, all zero but for the
\* position of the map itself, when it is empty
create_map(m, at) ==
    IF DOMAIN m = {}
    THEN [t \in {MapTags[i] : i \in 1..Len(MapTags)} |-> IF t = "map" THEN at ELSE 0]
    ELSE m

\* the values of _map in key order, as _write_map packs them
MapValues(m) == [i \in 1..Len(MapTags) |-> m[MapTags[i]]]

\* the tag _update_map is called with by the method of call c
MapTagOf(c) == IF c = "file_close_tag" THEN "stata_data_close" ELSE c

\* the statement of call c raises: a validation error of the method, or an
\* error of the stream
RaisesIn(c, flt) ==
    \/ c = "header" /\ flt \in {"time_stamp", "io header"}
    \/ c = "variable_labels" /\ flt = "variable_labels"
    \/ c = "prepare_data" /\ flt = "dates"
    \/ c = "data" /\ flt = "io data"
    \/ c = "map2" /\ flt = "io map"

\* the exception the fault raises
ExceptionOf(flt) ==
    IF flt \in {"io header", "io data", "io map"} THEN "OSError" ELSE "ValueError"

\* the bytes _write_header has written when the time_stamp check raises
HeaderBytesBeforeCheck(v) ==
    IF Tagged(v) THEN 11 ELSE 1 + 1 + 1 + 1 + 2 + 4 + 81

WFaults ==
    {"none", "column", "value_label", "time_stamp", "variable_labels", "dates",
     "io header", "io data", "io map"}

Targets == {"path", "compressed path", "buffer"}
MaxVars == 2
MaxRows == 1
MaxCats == 1

InitWriter ==
    /\ dta_version \in {114, 117, 118, 119}
    /\ target \in Targets
    /\ nvar \in 1..MaxVars
    /\ wnobs \in 0..MaxRows
    /\ ncat \in 0..MaxCats
    /\ wfault \in WFaults
    /\ unlink_fails \in BOOLEAN
    /\ flush_fails \in BOOLEAN
    /\ wpc = "new"
    /\ handle = IF target = "buffer" THEN "open" ELSE "none"
    /\ own_file = TRUE
    /\ output_file = FALSE
    /\ pos = 0
    /\ written = <<>>
    /\ map = EmptyMap
    /\ flushed = FALSE
    /\ disk = "none"
    /\ exc = None
    /\ raised = None
    /\ warned = FALSE

\* StataWriter.__init__: _prepare_pandas checks and converts the columns and
\* builds the value-label tables; nothing is opened
WriterInit ==
    /\ wpc = "new"
    /\ IF wfault \in {"column", "value_label"}
       THEN wpc' = "raised" /\ raised' = Some("ValueError")
       ELSE wpc' = "open" /\ raised' = raised
    /\ UNCHANGED <<wargs, handle, own_file, output_file, pos, written, map,
                   flushed, disk, exc, warned, rvars, cvars, svars,
                   mvars, kvars, tvars, xvars>>

\* _open_file_binary_write, and the BytesIO that stands in for a compressed
\* file
OpenFile ==
    /\ wpc = "open"
    /\ own_file' = (target # "buffer")
    /\ output_file' = (target = "compressed path")
    /\ handle' = "open"
    /\ disk' = IF target = "buffer" THEN disk ELSE "exists"
    /\ wpc' = "header"
    /\ UNCHANGED <<wargs, pos, written, map, flushed, exc, raised, warned,
                   rvars, cvars, svars,
                   mvars, kvars, tvars, xvars>>

Wrote(sec, at, n, m) == [sec |-> sec, at |-> at, len |-> n, map |-> m]

\* one call of write_file's try block: the method of the writer's class
Call(c) ==
    /\ LET v == dta_version
           n == SectionLen(c, v, nvar, wnobs, ncat)
           m1 == IF ~Tagged(v) \/ c \in {"header", "prepare_data", "expansion_fields"}
                 THEN map
                 ELSE IF c \in {"map", "map2"} THEN create_map(map, pos)
                 ELSE update_map(map, MapTagOf(c), pos)
           at == IF Tagged(v) /\ c \in {"map", "map2"} THEN m1["map"] ELSE pos
       IN
       IF RaisesIn(c, wfault)
       THEN /\ exc' = Some(ExceptionOf(wfault))
            /\ wpc' = "except"
            /\ map' = m1
            /\ IF c = "header" /\ wfault = "time_stamp"
               THEN /\ written' = Append(written,
                           Wrote(c, pos, HeaderBytesBeforeCheck(v), <<>>))
                    /\ pos' = pos + HeaderBytesBeforeCheck(v)
               ELSE UNCHANGED <<written, pos>>
       ELSE /\ exc' = exc
            /\ wpc' = NextCall(c)
            /\ IF Writes(c, v, ncat)
               THEN /\ written' = Append(written,
                           Wrote(IF c = "map2" THEN "map" ELSE c, at, n,
                                 IF c \in {"map", "map2"} THEN MapValues(m1) ELSE <<>>))
                    /\ pos' = at + n
                    /\ map' = IF Tagged(v) /\ c = "file_close_tag"
                              THEN update_map(m1, "end-of-file", at + n)
                              ELSE m1
               ELSE UNCHANGED <<written, pos>> /\ map' = m1
    /\ UNCHANGED <<wargs, handle, own_file, output_file, flushed, disk, raised,
                   warned, rvars, cvars, svars,
                   mvars, kvars, tvars, xvars>>

WriteHeader == wpc = "header" /\ Call("header")
WriteMap == wpc = "map" /\ Call("map")
WriteVariableTypes == wpc = "variable_types" /\ Call("variable_types")
WriteVarnames == wpc = "varnames" /\ Call("varnames")
WriteSortlist == wpc = "sortlist" /\ Call("sortlist")
WriteFormats == wpc = "formats" /\ Call("formats")
WriteValueLabelNames == wpc = "value_label_names" /\ Call("value_label_names")
WriteVariableLabels == wpc = "variable_labels" /\ Call("variable_labels")
WriteExpansionFields == wpc = "expansion_fields" /\ Call("expansion_fields")
WriteCharacteristics == wpc = "characteristics" /\ Call("characteristics")
PrepareData == wpc = "prepare_data" /\ Call("prepare_data")
WriteData == wpc = "data" /\ Call("data")
WriteStrls == wpc = "strls" /\ Call("strls")
WriteValueLabels == wpc = "value_labels" /\ Call("value_labels")
WriteFileCloseTag == wpc = "file_close_tag" /\ Call("file_close_tag")
RewriteMap == wpc = "map2" /\ Call("map2")

\* the OSError of a flush that fails
FlushError == "OSError (flush)"

\* StataWriter._close: the file is closed if the writer created it
close_handle(h, own) == IF own THEN "closed" ELSE h

\* the except clause's os.unlink(self._fname), when the writer owns the file
unlink(d, own, fails) == IF own /\ ~fails THEN "deleted" ELSE d

\* the else clause of write_file: _close(), whose flush may raise
WriteDone ==
    /\ wpc = "else"
    /\ IF flush_fails
       THEN /\ exc' = Some(FlushError)
            /\ raised' = Some(FlushError)
            /\ wpc' = "raised"
            /\ UNCHANGED <<flushed, handle>>
       ELSE /\ flushed' = TRUE
            /\ handle' = close_handle(handle, own_file)
            /\ wpc' = "done"
            /\ UNCHANGED <<exc, raised>>
    /\ UNCHANGED <<wargs, own_file, output_file, pos, written, map, disk,
                   warned, rvars, cvars, svars,
                   mvars, kvars, tvars, xvars>>

\* the except clause of write_file: _close(), the unlink, raise exc; a
\* flush that raises in _close() leaves the clause at once
WriteFailed ==
    /\ wpc = "except"
    /\ IF flush_fails
       THEN /\ raised' = Some(FlushError)
            /\ UNCHANGED <<flushed, handle, disk, warned>>
       ELSE /\ flushed' = TRUE
            /\ handle' = close_handle(handle, own_file)
            /\ disk' = unlink(disk, own_file, unlink_fails)
            /\ warned' = (own_file /\ unlink_fails)
            /\ raised' = exc
    /\ wpc' = "raised"
    /\ UNCHANGED <<wargs, own_file, output_file, pos, written, map, exc,
                   rvars, cvars, svars,
                   mvars, kvars, tvars, xvars>>

NextWriter ==
    \/ WriterInit
    \/ OpenFile
    \/ WriteHeader
    \/ WriteMap
    \/ WriteVariableTypes
    \/ WriteVarnames
    \/ WriteSortlist
    \/ WriteFormats
    \/ WriteValueLabelNames
    \/ WriteVariableLabels
    \/ WriteExpansionFields
    \/ WriteCharacteristics
    \/ PrepareData
    \/ WriteData
    \/ WriteStrls
    \/ WriteValueLabels
    \/ WriteFileCloseTag
    \/ RewriteMap
    \/ WriteDone
    \/ WriteFailed

\* ------------------------------------------------- the column-name check
\* A column label is [str |-> it is a Python str, text |-> str(label)], the
\* text a sequence of code points.
Name(t) == [str |-> TRUE, text |-> t]

\* StataParser.RESERVED_WORDS
RESERVED_WORDS ==
    {<<97, 103, 103, 114, 101, 103, 97, 116, 101>>,
     <<97, 114, 114, 97, 121>>, <<98, 111, 111, 108, 101, 97, 110>>,
     <<98, 114, 101, 97, 107>>, <<98, 121, 116, 101>>, <<99, 97, 115, 101>>,
     <<99, 97, 116, 99, 104>>, <<99, 108, 97, 115, 115>>,
     <<99, 111, 108, 118, 101, 99, 116, 111, 114>>,
     <<99, 111, 109, 112, 108, 101, 120>>, <<99, 111, 110, 115, 116>>,
     <<99, 111, 110, 116, 105, 110, 117, 101>>,
     <<100, 101, 102, 97, 117, 108, 116>>,
     <<100, 101, 108, 101, 103, 97, 116, 101>>,
     <<100, 101, 108, 101, 116, 101>>, <<100, 111>>,
     <<100, 111, 117, 98, 108, 101>>, <<101, 108, 115, 101>>,
     <<101, 108, 116, 121, 112, 101, 100, 101, 102>>, <<101, 110, 100>>,
     <<101, 110, 117, 109>>, <<101, 120, 112, 108, 105, 99, 105, 116>>,
     <<101, 120, 112, 111, 114, 116>>,
     <<101, 120, 116, 101, 114, 110, 97, 108>>, <<102, 108, 111, 97, 116>>,
     <<102, 111, 114>>, <<102, 114, 105, 101, 110, 100>>,
     <<102, 117, 110, 99, 116, 105, 111, 110>>,
     <<103, 108, 111, 98, 97, 108>>, <<103, 111, 116, 111>>, <<105, 102>>,
     <<105, 110, 108, 105, 110, 101>>, <<105, 110, 116>>,
     <<108, 111, 99, 97, 108>>, <<108, 111, 110, 103>>, <<78, 85, 76, 76>>,
     <<112, 114, 97, 103, 109, 97>>,
     <<112, 114, 111, 116, 101, 99, 116, 101, 100>>, <<113, 117, 97, 100>>,
     <<114, 111, 119, 118, 101, 99, 116, 111, 114>>,
     <<115, 104, 111, 114, 116>>, <<116, 121, 112, 101, 100, 101, 102>>,
     <<116, 121, 112, 101, 110, 97, 109, 101>>,
     <<118, 105, 114, 116, 117, 97, 108>>, <<95, 97, 108, 108>>, <<95, 78>>,
     <<95, 115, 107, 105, 112>>, <<95, 98>>, <<95, 112, 105>>,
     <<115, 116, 114, 35>>, <<105, 110>>, <<95, 112, 114, 101, 100>>,
     <<115, 116, 114, 76>>, <<95, 99, 111, 101, 102>>, <<95, 114, 99>>,
     <<117, 115, 105, 110, 103>>, <<95, 99, 111, 110, 115>>,
     <<95, 115, 101>>, <<119, 105, 116, 104>>, <<95, 110>>}

RECURSIVE ReplaceEach(_, _)
\* the loop of _validate_variable_name over the characters cs of the name it
\* was given: name = name.replace(c, "_") for every c outside A-Z a-z 0-9 _
ReplaceEach(cs, name) ==
    IF cs = <<>> THEN name
    ELSE LET c == Head(cs)
             bad == /\ (c < 65 \/ c > 90)
                    /\ (c < 97 \/ c > 122)
                    /\ (c < 48 \/ c > 57)
                    /\ c # 95
         IN  ReplaceEach(Tail(cs),
                 IF bad THEN [i \in 1..Len(name) |-> IF name[i] = c THEN 95 ELSE name[i]]
                 ELSE name)

\* a validation that marks every name it is given
validate_variable_name_marking(name) == <<95>> \o ReplaceEach(name, name)

\* StataWriter._validate_variable_name
validate_variable_name(name) == ReplaceEach(name, name)

\* name[: min(len(name), 32)]
Truncate(name) == SubSeq(name, 1, Min(Len(name), 32))

RECURSIVE Str(_)
\* str(n) of an integer n >= 0
Str(n) == IF n < 10 THEN <<48 + n>> ELSE Str(n \div 10) \o <<48 + (n % 10)>>

\* columns.count(name)
Count(columns, name) == Cardinality({i \in 1..Len(columns) : columns[i] = name})

\* a check with no loop for duplicates
DedupeOff(columns, name, id) == [name |-> name, id |-> id]

RECURSIVE Dedupe(_, _, _)
\* the while loop that prepends an ascending number to a duplicate
Dedupe(columns, name, id) ==
    IF Count(columns, Name(name)) > 0
    THEN Dedupe(columns, Truncate(<<95>> \o Str(id) \o name), id + 1)
    ELSE [name |-> name, id |-> id]

\* dict[key] = value
Put(d, k, x) == [y \in DOMAIN d \cup {k} |-> IF y = k THEN x ELSE d[y]]

\* del dict[key]
Del(d, k) == [y \in DOMAIN d \ {k} |-> d[y]]

RECURSIVE RenameColumns(_, _, _, _)
\* the loop of _check_column_names over the columns, from column j on
RenameColumns(columns, j, converted_names, duplicate_var_id) ==
    IF j > Len(columns)
    THEN [error |-> None, columns |-> columns, converted_names |-> converted_names]
    ELSE
    LET orig_name == columns[j]
        n1 == validate_variable_name(orig_name.text)
        n2 == IF n1 \in RESERVED_WORDS THEN <<95>> \o n1 ELSE n1
    IN
    IF n2 = <<>>
    THEN \* name[0] of an empty string
         [error |-> Some("IndexError"), columns |-> columns,
          converted_names |-> converted_names]
    ELSE
    LET n3 == IF 48 <= n2[1] /\ n2[1] <= 57 THEN <<95>> \o n2 ELSE n2
        n4 == Truncate(n3)
    IN
    IF Name(n4) # orig_name
    THEN LET d == Dedupe(columns, n4, duplicate_var_id)
         IN  RenameColumns([columns EXCEPT ![j] = Name(d.name)], j + 1,
                           Put(converted_names, orig_name, d.name), d.id)
    ELSE RenameColumns([columns EXCEPT ![j] = Name(n4)], j + 1,
                       converted_names, duplicate_var_id)

RECURSIVE FixDates(_, _, _, _)
\* the loop that moves the date conversion of a renamed column to its new
\* name, from column j on
FixDates(columns, original_columns, j, convert_dates) ==
    IF j > Len(columns) THEN [error |-> None, convert_dates |-> convert_dates]
    ELSE LET c == columns[j]
             o == original_columns[j]
         IN  IF c = o
             THEN FixDates(columns, original_columns, j + 1, convert_dates)
             ELSE IF o \notin DOMAIN convert_dates
             THEN [error |-> Some("KeyError"), convert_dates |-> convert_dates]
             ELSE FixDates(columns, original_columns, j + 1,
                           Del(Put(convert_dates, c, convert_dates[o]), o))

\* converted_names = {}
NoNames == [k \in {} |-> <<>>]

\* no call of _check_column_names yet
NotChecked ==
    [state |-> "new", error |-> None, columns |-> <<>>,
     convert_dates |-> [k \in {} |-> "%tc"], converted_names |-> None]

\* StataWriter._check_column_names; _converted_names is the attribute as the
\* method leaves it, None when the method raised before setting it
check_column_names(columns, convert_dates) ==
    LET r == RenameColumns(columns, 1, NoNames, 0)
        f == IF r.error = None /\ DOMAIN convert_dates # {}
             THEN FixDates(r.columns, columns, 1, convert_dates)
             ELSE [error |-> None, convert_dates |-> convert_dates]
    IN  IF r.error # None
        THEN [state |-> "raised", error |-> r.error, columns |-> r.columns,
              convert_dates |-> convert_dates, converted_names |-> None]
        ELSE IF f.error # None
        THEN [state |-> "raised", error |-> f.error, columns |-> r.columns,
              convert_dates |-> f.convert_dates, converted_names |-> None]
        ELSE [state |-> "done", error |-> None, columns |-> r.columns,
              convert_dates |-> f.convert_dates,
              converted_names |-> Some(r.converted_names)]

\* the labels the check is tried on: short texts over a few characters, long
\* texts around the 32-character limit, and labels that are not strings
MaxNameLen == 2
MaxCols == 2

Alphabet == {95, 49, 105, 102, 45, 110}     \* _ 1 i f - n

RECURSIVE Texts(_)
Texts(n) ==
    IF n = 0 THEN {<<>>}
    ELSE Texts(n - 1) \cup {<<c>> \o t : c \in Alphabet, t \in {u \in Texts(n - 1) : Len(u) = n - 1}}

Filler(n) == [i \in 1..n |-> 97]

LongTexts == {<<c>> \o Filler(n) : c \in Alphabet, n \in {31, 32}}

Labels ==
    {Name(t) : t \in Texts(MaxNameLen) \cup LongTexts}
        \cup {[str |-> FALSE, text |-> t] : t \in {<<49>>, <<105, 102>>}}

\* labels chosen to be what a rewritten label becomes
Colliders == {Name(<<95, 49>>), Name(<<95, 105, 102>>), Name(<<95, 48, 95, 49>>),
              Name(<<95>> \o Filler(31))}

ColumnLists ==
    UNION {{cols \in [1..n -> Labels \cup Colliders] :
               Cardinality({i \in 1..n : cols[i] \notin Colliders}) <= 1} :
           n \in 1..MaxCols}

\* labels that the check rewrites to one and the same name
Twins == {[str |-> FALSE, text |-> <<49>>], Name(<<49>>),
          [str |-> FALSE, text |-> <<105, 102>>], Name(<<105, 102>>)}

\* lists in which more than one label is rewritten
TwinLists == UNION {[1..n -> Twins \cup Colliders] : n \in 1..MaxCols}

RangeOf(seq) == {seq[i] : i \in 1..Len(seq)}

\* convert_dates: no key, one column as key, or every column
DateKeys(cols) == {{}} \cup {{cols[1]}} \cup {RangeOf(cols)}

InitNames ==
    /\ columns_in \in ColumnLists \cup TwinLists
    /\ dates_in \in DateKeys(columns_in)
    /\ checked = [state |-> "new", error |-> None, columns |-> columns_in,
                  convert_dates |-> [k \in dates_in |-> "%tc"],
                  converted_names |-> None]
    /\ rechecked = NotChecked

\* _prepare_pandas calls _check_column_names
CheckColumnNames ==
    /\ checked.state = "new"
    /\ checked' = check_column_names(columns_in, [k \in dates_in |-> "%tc"])
    /\ UNCHANGED <<columns_in, dates_in, rechecked, rvars, wvars, svars,
                   mvars, kvars, tvars, xvars>>

\* the rest of StataWriter.__init__ after _prepare_pandas: the statement
\* self._converted_names = {} among the assignments that follow it
FinishInit ==
    /\ checked.state = "done"
    /\ checked' = [checked EXCEPT !.state = "constructed",
                                  !.converted_names = Some(NoNames)]
    /\ UNCHANGED <<columns_in, dates_in, rechecked, rvars, wvars, svars,
                   mvars, kvars, tvars, xvars>>

\* a second writer is given the table with the names the first one left,
\* and the convert_dates dict the first one updated
CheckAgain ==
    /\ checked.state = "constructed"
    /\ rechecked.state = "new"
    /\ rechecked' = check_column_names(checked.columns, checked.convert_dates)
    /\ UNCHANGED <<columns_in, dates_in, checked, rvars, wvars, svars,
                   mvars, kvars, tvars, xvars>>

NextNames == CheckColumnNames \/ FinishInit \/ CheckAgain

\* ------------------------------------------------------- the strL columns
\* An unsigned integer of any size is the sequence of its base-256 digits,
\* least significant first, with no zero at the end: 0 is <<>>.
RECURSIVE Num(_)
Num(n) == IF n = 0 THEN <<>> ELSE <<n % 256>> \o Num(n \div 256)

\* d * 2 ** (8 * k)
Shift(d, k) == IF d = <<>> THEN <<>> ELSE [i \in 1..k |-> 0] \o d

RECURSIVE AddCarry(_, _, _)
AddCarry(a, b, carry) ==
    IF a = <<>> /\ b = <<>> THEN (IF carry = 0 THEN <<>> ELSE <<carry>>)
    ELSE LET x == IF a = <<>> THEN 0 ELSE Head(a)
             y == IF b = <<>> THEN 0 ELSE Head(b)
             sum == x + y + carry
         IN  <<sum % 256>> \o AddCarry(IF a = <<>> THEN a ELSE Tail(a),
                                       IF b = <<>> THEN b ELSE Tail(b),
                                       sum \div 256)

\* a + b
Add(a, b) == AddCarry(a, b, 0)

Reverse(bs) == [i \in 1..Len(bs) |-> bs[Len(bs) + 1 - i]]

RECURSIVE Strip(_)
\* the digits without the zeros at the end
Strip(d) ==
    IF d = <<>> THEN d
    ELSE IF d[Len(d)] = 0 THEN Strip(SubSeq(d, 1, Len(d) - 1)) ELSE d

\* struct.pack(order + fmt, d) for an unsigned format of size bytes; no
\* value packed here exceeds its format
pack(d, size, order) ==
    LET little == [i \in 1..size |-> IF i <= Len(d) THEN d[i] ELSE 0]
    IN  IF order = "<" THEN little ELSE Reverse(little)

\* struct.unpack(order + fmt, bs)[0] for an unsigned format
unpack(bs, order) == Strip(IF order = "<" THEN bs ELSE Reverse(bs))

\* o_size of StataStrLWriter.__init__
o_size(ver) == IF ver = 117 THEN 4 ELSE IF ver = 118 THEN 6 ELSE 5

\* a writer whose offset is that of version 117 in every version
o_offset_bytes_117(ver) == 4

\* _o_offet = 2 ** (8 * (8 - o_size)), as a number of bytes
o_offset_bytes(ver) == 8 - o_size(ver)

\* StataStrLWriter._convert_key: v + self._o_offet * o
convert_key(v, o, ver) == Add(Num(v), Shift(Num(o), o_offset_bytes(ver)))

\* val = "" if val is None else val
TextOf(val) == IF val = "None" THEN "" ELSE val

\* a table that numbers columns and rows from 0
new_key_from_zero(v, o) == <<v, o>>

\* key = (v + 1, o + 1): the key of a string not in the table yet
new_key(v, o) == <<v + 1, o + 1>>

\* gso_table.get(val, None)
Lookup(table, text) ==
    IF \E i \in 1..Len(table) : table[i].text = text
    THEN Some(table[CHOOSE i \in 1..Len(table) : table[i].text = text].vo)
    ELSE None

RECURSIVE generate_table(_, _, _, _, _)
\* StataStrLWriter.generate_table from cell n on, the cells counted by row;
\* pl is <<frame column of the first strL column, row of the first cell>>,
\* the rows before it holding the empty string
generate_table(cs, pl, ver, n, acc) ==
    LET nc == Len(cs[1])
    IN  IF n >= Len(cs) * nc THEN acc
        ELSE LET r == (n \div nc) + 1
                 c == (n % nc) + 1
                 val == TextOf(cs[r][c])
                 found == Lookup(acc.table, val)
                 key == IF found = None
                        THEN new_key(pl[1] + c - 1, pl[2] + r - 1)
                        ELSE found[1]
                 table == IF found = None
                          THEN Append(acc.table, [text |-> val, vo |-> key])
                          ELSE acc.table
             IN  generate_table(cs, pl, ver, n + 1,
                     [table |-> table,
                      keys |-> [acc.keys EXCEPT ![r][c] =
                                    convert_key(key[1], key[2], ver)]])

\* StataStrLWriter.generate_blob: the records, with the byte order order
generate_blob(table, ver, order) ==
    LET emitted == SelectSeq(table, LAMBDA e : e.vo # <<0, 0>>)
    IN  [i \in 1..Len(emitted) |->
            [v |-> pack(Num(emitted[i].vo[1]), 4, order),
             o |-> pack(Num(emitted[i].vo[2]), IF ver = 117 THEN 4 ELSE 8, order),
             typ |-> 130,
             len |-> pack(Num(Len(emitted[i].text) + 1), 4, order),
             text |-> emitted[i].text]]

\* the key _read_strls derives from the v and o fields of a record
read_key(rec, ver, order, machine) ==
    IF ver = 117 THEN unpack(rec.v \o rec.o, order)
    ELSE LET buf == rec.v \o rec.o
             v_size == IF ver = 118 THEN 2 ELSE 3
         IN  unpack(IF order = "<"
                    THEN SubSeq(buf, 1, v_size) \o SubSeq(buf, 5, 12 - v_size)
                    ELSE SubSeq(buf, 1, v_size) \o SubSeq(buf, 5 + v_size, 12),
                    machine)

RECURSIVE read_strls_from(_, _, _, _, _, _)
\* the loop of _read_strls from record i on: a record whose length field
\* does not give its length swallows the rest of the section
read_strls_from(records, i, ver, order, machine, gso) ==
    IF i > Len(records) THEN gso
    ELSE LET rec == records[i]
             k == read_key(rec, ver, order, machine)
             whole == unpack(rec.len, order) = Num(Len(rec.text) + 1)
             va == IF whole THEN rec.text ELSE "misread"
             g == [x \in DOMAIN gso \cup {k} |-> IF x = k THEN va ELSE gso[x]]
         IN  IF whole
             THEN read_strls_from(records, i + 1, ver, order, machine, g)
             ELSE g

\* StataReader._insert_strls on the cells read with the file's byte order
insert_strls_cells(bytes, order, gso) ==
    IF \A r \in 1..Len(bytes) : \A c \in 1..Len(bytes[r]) :
           unpack(bytes[r][c], order) \in DOMAIN gso
    THEN [error |-> None,
          rows |-> [r \in 1..Len(bytes) |->
                      [c \in 1..Len(bytes[r]) |-> gso[unpack(bytes[r][c], order)]]]]
    ELSE [error |-> Some("KeyError"), rows |-> <<>>]

\* _insert_strls not called yet
NoStrlOut == [error |-> None, rows |-> <<>>]

MaxStrlRows == 2
MaxStrlCells == 4
StrlColumns == {1, 2}
StrlValues == {"None", "", "a", "b"}
Placements == {<<0, 0>>, <<256, 65536>>}

InitStrl ==
    /\ strl_version \in NewVersions
    /\ byteorder \in {"<", ">"}
    /\ native \in {"<", ">"}
    /\ place \in Placements
    /\ cells \in UNION {UNION {[1..nr -> [1..nc -> StrlValues]] :
                                  nc \in {n \in StrlColumns : nr * n <= MaxStrlCells}} :
                           nr \in 1..MaxStrlRows}
    /\ spc = "new"
    /\ gso_table = <<[text |-> "", vo |-> <<0, 0>>]>>
    /\ keys = <<>> /\ blob = <<>> /\ cell_bytes = <<>>
    /\ GSO = <<>> /\ strl_out = NoStrlOut

\* StataWriter117._convert_strls: the StataStrLWriter is made without the
\* byteorder argument, so it packs with the byte order of the machine
ConvertStrls ==
    /\ spc = "new"
    /\ LET t == generate_table(cells, place, strl_version, 0,
                    [table |-> gso_table,
                     keys |-> [r \in 1..Len(cells) |->
                                  [c \in 1..Len(cells[1]) |-> <<>>]]])
       IN  /\ gso_table' = t.table
           /\ keys' = t.keys
           /\ blob' = generate_blob(t.table, strl_version, native)
    /\ spc' = "converted"
    /\ UNCHANGED <<sargs, cell_bytes, GSO, strl_out, rvars, wvars, cvars,
                   mvars, kvars, tvars, xvars>>

\* _prepare_data and _write_data: the keys become uint64 cells in the byte
\* order of the file
WriteStrlCells ==
    /\ spc = "converted"
    /\ cell_bytes' = [r \in 1..Len(keys) |->
                         [c \in 1..Len(keys[r]) |-> pack(keys[r][c], 8, byteorder)]]
    /\ spc' = "written"
    /\ UNCHANGED <<sargs, gso_table, keys, blob, GSO, strl_out, rvars, wvars, cvars,
                   mvars, kvars, tvars, xvars>>

\* StataReader._read_strls on the file written
ReadStrls ==
    /\ spc = "written"
    /\ GSO' = read_strls_from(blob, 1, strl_version, byteorder, native,
                              [x \in {<<>>} |-> ""])
    /\ spc' = "read"
    /\ UNCHANGED <<sargs, gso_table, keys, blob, cell_bytes, strl_out,
                   rvars, wvars, cvars,
                   mvars, kvars, tvars, xvars>>

\* StataReader._insert_strls
InsertStrls ==
    /\ spc = "read"
    /\ strl_out' = insert_strls_cells(cell_bytes, byteorder, GSO)
    /\ spc' = "inserted"
    /\ UNCHANGED <<sargs, gso_table, keys, blob, cell_bytes, GSO,
                   rvars, wvars, cvars,
                   mvars, kvars, tvars, xvars>>

NextStrl == ConvertStrls \/ WriteStrlCells \/ ReadStrls \/ InsertStrls

\* ------------------------------------------------- the missing values
\* a < b for two unsigned integers given by their digits
RECURSIVE LessNum(_, _)
LessNum(a, b) ==
    IF Len(a) # Len(b) THEN Len(a) < Len(b)
    ELSE IF a = <<>> THEN FALSE
    ELSE IF a[Len(a)] # b[Len(b)] THEN a[Len(a)] < b[Len(b)]
    ELSE LessNum(Strip(SubSeq(a, 1, Len(a) - 1)), Strip(SubSeq(b, 1, Len(b) - 1)))

RECURSIVE MulCarry(_, _, _)
MulCarry(d, k, carry) ==
    IF d = <<>> THEN Num(carry)
    ELSE LET x == Head(d) * k + carry
         IN  <<x % 256>> \o MulCarry(Tail(d), k, x \div 256)

\* d * k for a small k
MulSmall(d, k) == Strip(MulCarry(d, k, 0))

RECURSIVE DivFromTop(_, _, _)
\* the digits of d \div k, d given with its most significant digit first
DivFromTop(top, k, rem) ==
    IF top = <<>> THEN <<>>
    ELSE LET x == rem * 256 + Head(top)
         IN  DivFromTop(Tail(top), k, x % k) \o <<x \div k>>

\* d \div k for a small k
DivSmall(d, k) == Strip(DivFromTop(Reverse(d), k, 0))

\* a number as Python holds it: an int n, or a float of sign s, biased
\* exponent e and fraction m (52 bits, as digits); an int too large for the
\* model keeps the fields of the float it was made from
IntValue(n) == [t |-> "int", n |-> n, s |-> 0, e |-> 0, m |-> <<>>]
FloatValue(sign, e, m) == [t |-> "float", n |-> 0, s |-> sign, e |-> e, m |-> m]

\* struct.unpack("<f", bs)[0], of the bytes of a normal number: the float32
\* as the float (a double) Python makes of it
unpack_f(bs) ==
    LET e32 == (bs[4] % 128) * 2 + bs[3] \div 128
        frac == Strip(<<bs[1], bs[2], bs[3] % 128>>)
    IN  FloatValue(bs[4] \div 128, e32 - 127 + 1023, Shift(MulSmall(frac, 32), 3))

\* struct.pack("<f", x), of a float that a float32 holds exactly
pack_f(x) ==
    LET e32 == x.e - 1023 + 127
        frac == pack(DivSmall(SubSeq(x.m, 4, Len(x.m)), 32), 3, "<")
    IN  <<frac[1], frac[2], (e32 % 2) * 128 + frac[3], x.s * 128 + e32 \div 2>>

\* struct.unpack("<d", bs)[0], of the bytes of a normal number
unpack_d(bs) ==
    FloatValue(bs[8] \div 128, (bs[8] % 128) * 16 + bs[7] \div 16,
               Strip(SubSeq(bs, 1, 6) \o <<bs[7] % 16>>))

\* struct.pack("<d", x)
pack_d(x) ==
    LET frac == pack(x.m, 7, "<")
    IN  SubSeq(frac, 1, 6) \o <<(x.e % 16) * 16 + frac[7], x.s * 128 + x.e \div 16>>

\* x < y, for ints and for floats that are no NaN
Less(x, y) ==
    IF x.t = "int" /\ y.t = "int" THEN x.n < y.n
    ELSE IF x.s # y.s THEN x.s = 1
    ELSE LET below == \/ x.e < y.e
                      \/ x.e = y.e /\ LessNum(x.m, y.m)
             above == \/ y.e < x.e
                      \/ x.e = y.e /\ LessNum(y.m, x.m)
         IN  IF x.s = 0 THEN below ELSE above

\* "." and "." + chr(96 + i), as code points
MissingLabel(i) == IF i = 0 THEN <<46>> ELSE <<46, 96 + i>>

\* range(27): the labels of a kind
Labels27 == 27

\* bases
bases == <<101, 32741, 2147483621>>

IntKinds == <<"int8", "int16", "int32">>

\* an increment that adds nothing
increment32_none == <<>>

\* increment = struct.unpack("<i", b"\x00\x08\x00\x00")[0]
increment32 == unpack(<<0, 8, 0, 0>>, "<")

\* increment = struct.unpack("q", b"\x00\x00\x00\x00\x00\x01\x00\x00")[0]
increment64(machine) == unpack(<<0, 0, 0, 0, 0, 1, 0, 0>>, machine)

\* an entry of MISSING_VALUES is made: dict[key] = label
SetMissing(d, k, label) == [x \in DOMAIN d \cup {k} |-> IF x = k THEN label ELSE d[x]]

\* the entry the log keeps of it
Sentinel(kind, bs, label) == [kind |-> kind, bytes |-> bs, label |-> label]

NoValues == [x \in {} |-> <<>>]

\* no column converted yet
NotConverted ==
    [state |-> "none", fmt |-> "b", cell |-> IntValue(0), convert_missing |-> FALSE,
     result |-> [error |-> None, out |-> [t |-> "none", value |-> IntValue(0), str |-> <<>>]]]

InitMissing ==
    /\ native \in {"<", ">"}
    /\ mpc = [loop |-> "bases", b |-> 1, i |-> 0]
    /\ MISSING_VALUES = NoValues
    /\ float32_base = <<0, 0, 0, 127>>
    /\ float64_base = <<0, 0, 0, 0, 0, 0, 224, 127>>
    /\ BASE_MISSING_VALUES = NoValues
    /\ sentinels = <<>>
    /\ converted = NotConverted

\* one pass of the loops over bases and range(1, 27): the entry of b itself
\* is the pass i = 0
AddIntMissing ==
    /\ mpc.loop = "bases"
    /\ LET b == bases[mpc.b]
           label == MissingLabel(mpc.i)
       IN  /\ MISSING_VALUES' = SetMissing(MISSING_VALUES, IntValue(mpc.i + b), label)
           /\ sentinels' = Append(sentinels,
                                  Sentinel(IntKinds[mpc.b], Num(mpc.i + b), label))
    /\ mpc' = IF mpc.i < Labels27 - 1 THEN [mpc EXCEPT !.i = mpc.i + 1]
              ELSE IF mpc.b < Len(bases) THEN [mpc EXCEPT !.b = mpc.b + 1, !.i = 0]
              ELSE [loop |-> "float32", b |-> 0, i |-> 0]
    /\ UNCHANGED <<float32_base, float64_base, BASE_MISSING_VALUES, converted,
                   rvars, wvars, cvars, svars,
                   kvars, tvars, xvars>>

\* one pass of the loop over range(27) that follows float32_base
AddFloat32Missing ==
    /\ mpc.loop = "float32"
    /\ LET key == unpack_f(float32_base)
           label == MissingLabel(mpc.i)
           int_value == Add(unpack(pack_f(key), "<"), increment32)
       IN  /\ MISSING_VALUES' = SetMissing(MISSING_VALUES, key, label)
           /\ sentinels' = Append(sentinels, Sentinel("float32", float32_base, label))
           /\ float32_base' = pack(int_value, 4, "<")
    /\ mpc' = IF mpc.i < Labels27 - 1 THEN [mpc EXCEPT !.i = mpc.i + 1]
              ELSE [loop |-> "float64", b |-> 0, i |-> 0]
    /\ UNCHANGED <<float64_base, BASE_MISSING_VALUES, converted,
                   rvars, wvars, cvars, svars,
                   kvars, tvars, xvars>>

\* one pass of the loop over range(27) that follows float64_base; its
\* struct calls with "q" use the byte order of the machine
AddFloat64Missing ==
    /\ mpc.loop = "float64"
    /\ LET key == unpack_d(float64_base)
           label == MissingLabel(mpc.i)
           int_value == Add(unpack(pack_d(key), native), increment64(native))
       IN  /\ MISSING_VALUES' = SetMissing(MISSING_VALUES, key, label)
           /\ sentinels' = Append(sentinels, Sentinel("float64", float64_base, label))
           /\ float64_base' = pack(int_value, 8, native)
    /\ mpc' = IF mpc.i < Labels27 - 1 THEN [mpc EXCEPT !.i = mpc.i + 1]
              ELSE [loop |-> "base", b |-> 0, i |-> 0]
    /\ UNCHANGED <<float32_base, BASE_MISSING_VALUES, converted,
                   rvars, wvars, cvars, svars,
                   kvars, tvars, xvars>>

\* StataMissingValue.get_base_missing_value(dtype)
get_base_missing_value(base_values, dtype) ==
    IF dtype \in {"int8", "int16", "int32", "float32", "float64"}
    THEN [error |-> None, value |-> base_values[dtype]]
    ELSE [error |-> Some("ValueError"), value |-> IntValue(0)]

\* BASE_MISSING_VALUES = {...}, made of the bases as the loops left them
SetBaseMissingValues ==
    /\ mpc.loop = "base"
    /\ BASE_MISSING_VALUES' =
           [k \in {"int8", "int16", "int32", "float32", "float64"} |->
               CASE k = "int8" -> IntValue(101)
                 [] k = "int16" -> IntValue(32741)
                 [] k = "int32" -> IntValue(2147483621)
                 [] k = "float32" -> unpack_f(float32_base)
                 [] k = "float64" -> unpack_d(float64_base)]
    /\ mpc' = [loop |-> "done", b |-> 0, i |-> 0]
    /\ UNCHANGED <<MISSING_VALUES, float32_base, float64_base, sentinels,
                   converted, rvars, wvars, cvars, svars,
                   kvars, tvars, xvars>>

RECURSIVE Halve(_, _)
\* d \div 2 ** k
Halve(d, k) == IF k = 0 THEN d ELSE Halve(DivSmall(d, 2), k - 1)

RECURSIVE ToNat(_)
\* the integer of the digits d, below 2 ** 31
ToNat(d) == IF d = <<>> THEN 0 ELSE Head(d) + 256 * ToNat(Tail(d))

\* value < 2147483648
BelowTwoTo31(x) == x.t = "int" \/ x.s = 1 \/ x.e < 1023 + 31

\* int(value): the float loses its fraction
int(x) ==
    IF x.t = "int" THEN x
    ELSE IF x.e < 1023 THEN IntValue(0)
    ELSE IF x.e < 1023 + 31
         THEN LET n == ToNat(Halve(Add(x.m, Shift(Num(16), 6)), 1075 - x.e))
              IN  IntValue(IF x.s = 1 THEN 0 - n ELSE n)
    ELSE [x EXCEPT !.t = "int"]

NoLabel == <<>>

\* StataMissingValue(value): the label of the value, or the KeyError of
\* self.MISSING_VALUES[value]
StataMissingValue(table, value) ==
    LET key == IF BelowTwoTo31(value) THEN int(value) ELSE value
    IN  IF key \in DOMAIN table
        THEN [error |-> None, str |-> table[key], value |-> value]
        ELSE [error |-> Some("KeyError"), str |-> NoLabel, value |-> value]

\* VALID_RANGE[fmt]
VALID_RANGE(fmt) ==
    CASE fmt = "b" -> <<IntValue(-127), IntValue(100)>>
      [] fmt = "h" -> <<IntValue(-32767), IntValue(32740)>>
      [] fmt = "l" -> <<IntValue(-2147483647), IntValue(2147483620)>>
      [] fmt = "f" -> <<unpack_f(<<255, 255, 255, 254>>), unpack_f(<<255, 255, 255, 126>>)>>
      [] fmt = "d" -> <<unpack_d(<<255, 255, 255, 255, 255, 255, 239, 255>>),
                        unpack_d(<<255, 255, 255, 255, 255, 255, 223, 127>>)>>

\* series < nmin or series > nmax, of one cell
IsMissing(fmt, cell) ==
    \/ Less(cell, VALID_RANGE(fmt)[1])
    \/ Less(VALID_RANGE(fmt)[2], cell)

\* what a cell of the column has become
Cell(t, value, str) == [t |-> t, value |-> value, str |-> str]

\* _do_convert_missing on a column of one cell
do_convert_missing(table, fmt, cell, convert_missing) ==
    IF ~IsMissing(fmt, cell)
    THEN [error |-> None, out |-> Cell("value", cell, NoLabel)]
    ELSE IF convert_missing
         THEN LET missing_value == StataMissingValue(table, cell)
              IN  IF missing_value.error # None
                  THEN [error |-> missing_value.error, out |-> Cell("none", cell, NoLabel)]
                  ELSE [error |-> None,
                        out |-> Cell("StataMissingValue", cell, missing_value.str)]
    ELSE [error |-> None, out |-> Cell("nan", cell, NoLabel)]

\* the cells a column of the file may hold, as the reader's dtype gives them
Cells(fmt) ==
    CASE fmt = "b" -> {IntValue(n) : n \in {-128, -127, 0, 100, 101, 127}}
      [] fmt = "h" -> {IntValue(n) : n \in {-32768, 0, 32740, 32741, 32767}}
      [] fmt = "l" -> {IntValue(n) : n \in {-2147483647 - 1, 0, 2147483620,
                                            2147483621, 2147483647}}
      [] fmt = "f" -> {unpack_f(bs) : bs \in {<<0, 0, 128, 63>>, <<255, 255, 255, 126>>,
                                              <<0, 0, 0, 127>>, <<0, 208, 0, 127>>,
                                              <<1, 0, 0, 127>>, <<0, 0, 0, 255>>}}
      [] fmt = "d" -> {unpack_d(bs) : bs \in {<<0, 0, 0, 0, 0, 0, 240, 63>>,
                                              <<255, 255, 255, 255, 255, 255, 223, 127>>,
                                              <<0, 0, 0, 0, 0, 0, 224, 127>>,
                                              <<0, 0, 0, 0, 0, 26, 224, 127>>,
                                              <<1, 0, 0, 0, 0, 0, 224, 127>>,
                                              <<0, 0, 0, 0, 0, 0, 224, 255>>}}

Fmts == {"b", "h", "l", "f", "d"}

\* read() calls _do_convert_missing on the data of a file
ConvertMissing ==
    /\ mpc.loop = "done"
    /\ \E fmt \in Fmts, convert_missing \in BOOLEAN :
         \E cell \in Cells(fmt) :
           converted' = [state |-> "done", fmt |-> fmt, cell |-> cell,
                         convert_missing |-> convert_missing,
                         result |-> do_convert_missing(MISSING_VALUES, fmt, cell,
                                                       convert_missing)]
    /\ UNCHANGED <<mpc, MISSING_VALUES, float32_base, float64_base,
                   BASE_MISSING_VALUES, sentinels, rvars, wvars, cvars, svars,
                   kvars, tvars, xvars>>

NextMissing ==
    \/ AddIntMissing
    \/ AddFloat32Missing
    \/ AddFloat64Missing
    \/ SetBaseMissingValues
    \/ ConvertMissing

\* ------------------------------------------------- the cast of the columns
\* an integer of any width: its sign and the digits of its magnitude
Signed(neg, mag) == [neg |-> neg, mag |-> mag]

SignedOf(n) == IF n < 0 THEN Signed(TRUE, Num(0 - n)) ELSE Signed(FALSE, Num(n))

\* a < b
LessSigned(a, b) ==
    IF a.neg # b.neg THEN a.neg
    ELSE IF a.neg THEN LessNum(b.mag, a.mag)
    ELSE LessNum(a.mag, b.mag)

\* a <= b
LeSigned(a, b) == ~LessSigned(b, a)

\* 2 ** 31, 2 ** 32 - 1, 2 ** 53, 2 ** 63 - 1 and 2 ** 63, as digits
TwoTo31 == <<0, 0, 0, 128>>
MaxUint32 == <<255, 255, 255, 255>>
TwoTo53 == Shift(Num(32), 6)
MaxInt64 == <<255, 255, 255, 255, 255, 255, 255, 127>>
TwoTo63 == <<0, 0, 0, 0, 0, 0, 0, 128>>

\* np.iinfo(dtype).max
iinfo_max(dtype) ==
    CASE dtype = "int8" -> SignedOf(127)
      [] dtype = "int16" -> SignedOf(32767)
      [] dtype = "int32" -> SignedOf(2147483647)
      [] dtype = "int64" -> Signed(FALSE, MaxInt64)

\*                  original, if small, if large
conversion_data ==
    << <<"bool", "int8", "int8">>,
       <<"uint8", "int8", "int16">>,
       <<"uint16", "int16", "int32">>,
       <<"uint32", "int32", "int64">> >>

RECURSIVE convert_from(_, _, _)
\* the loop over conversion_data from its k-th row on: each row is compared
\* with the dtype the rows before it have left
convert_from(dtype, max, k) ==
    IF k > Len(conversion_data) THEN dtype
    ELSE LET c_data == conversion_data[k]
         IN  convert_from(IF dtype = c_data[1]
                          THEN (IF LeSigned(max, iinfo_max(c_data[2]))
                                THEN c_data[2] ELSE c_data[3])
                          ELSE dtype,
                          max, k + 1)

\* "Check values and upcast if necessary": the dtype the column is given
upcast(dtype, min, max) ==
    CASE dtype = "int8" ->
             IF LessSigned(SignedOf(100), max) \/ LessSigned(min, SignedOf(-127))
             THEN "int16" ELSE "int8"
      [] dtype = "int16" ->
             IF LessSigned(SignedOf(32740), max) \/ LessSigned(min, SignedOf(-32767))
             THEN "int32" ELSE "int16"
      [] dtype = "int64" ->
             IF LeSigned(max, SignedOf(2147483620))
                /\ LeSigned(SignedOf(-2147483647), min)
             THEN "int32" ELSE "float64"
      [] OTHER -> dtype

\* _cast_to_stata_types on one integer column of the frame: no astype of it
\* changes a value, since each goes to a dtype that holds the column
cast_to_stata_types(col) ==
    LET dtype == convert_from(col.dtype, col.max, 1)
        out == upcast(dtype, col.min, col.max)
    IN  [state |-> "done", dtype |-> out,
         ws |-> /\ dtype = "int64" /\ out = "float64"
                /\ \/ LeSigned(Signed(FALSE, TwoTo53), col.max)
                   \/ LeSigned(col.min, Signed(TRUE, TwoTo53))]

IntDtypes == {"bool", "uint8", "uint16", "uint32", "int8", "int16", "int32", "int64"}

\* values a column of the dtype may hold, those next to a limit among them
ValuesOf(dtype) ==
    CASE dtype = "bool" -> {SignedOf(n) : n \in {0, 1}}
      [] dtype = "uint8" -> {SignedOf(n) : n \in {0, 100, 101, 127, 128, 255}}
      [] dtype = "uint16" -> {SignedOf(n) : n \in {0, 32740, 32741, 32767, 32768, 65535}}
      [] dtype = "uint32" ->
             {SignedOf(n) : n \in {0, 2147483620, 2147483621, 2147483647}}
             \cup {Signed(FALSE, TwoTo31), Signed(FALSE, MaxUint32)}
      [] dtype = "int8" -> {SignedOf(n) : n \in {-127, 0, 100, 101, 127}}
                           \cup {Signed(TRUE, Num(128))}
      [] dtype = "int16" -> {SignedOf(n) : n \in {-32767, 0, 32740, 32741, 32767}}
                            \cup {Signed(TRUE, Num(32768))}
      [] dtype = "int32" ->
             {SignedOf(n) : n \in {-2147483647, 0, 2147483620, 2147483621, 2147483647}}
             \cup {Signed(TRUE, TwoTo31)}
      [] dtype = "int64" ->
             {SignedOf(n) : n \in {-2147483647, 0, 2147483620, 2147483621}}
             \cup {Signed(TRUE, TwoTo63), Signed(TRUE, TwoTo53), Signed(TRUE, TwoTo31),
                   Signed(FALSE, TwoTo53), Signed(FALSE, MaxInt64)}

Column(dtype, min, max) == [dtype |-> dtype, min |-> min, max |-> max]

\* no column given yet
NotCasted == [state |-> "none", dtype |-> "bool", ws |-> FALSE]

InitCast ==
    /\ \E dtype \in IntDtypes :
         \E min \in ValuesOf(dtype), max \in ValuesOf(dtype) :
           /\ LeSigned(min, max)
           /\ column = Column(dtype, min, max)
    /\ casted = NotCasted

\* _prepare_pandas calls _cast_to_stata_types on the frame
CastColumn ==
    /\ casted.state = "none"
    /\ casted' = cast_to_stata_types(column)
    /\ UNCHANGED <<column, rvars, wvars, cvars, svars, mvars, tvars, xvars>>

NextCast == CastColumn

\* ------------------------------------------------- the type codes
MaxTypes == 2

\* an entry of typlist: an int (the width of a str column) or a letter
IntTyp(n) == [int |-> Some(n), str |-> None]
StrTyp(c) == [int |-> None, str |-> Some(c)]

\* an entry of dtyplist: a numpy dtype, or the text of a str width
Dtype(kind, size) == [kind |-> kind, size |-> size]

\* an exception and the start of its message
Error(exception, message) == Some([exception |-> exception, message |-> message])

\* the keys of DTYPE_MAP
DTYPE_MAP_keys == (1..244) \cup (251..255)

\* DTYPE_MAP[typ]
DTYPE_MAP(typ) ==
    CASE typ \in 1..244 -> Dtype("a", typ)
      [] typ = 251 -> Dtype("int8", 1)
      [] typ = 252 -> Dtype("int16", 2)
      [] typ = 253 -> Dtype("int32", 4)
      [] typ = 254 -> Dtype("float32", 4)
      [] typ = 255 -> Dtype("float64", 8)

\* the keys of TYPE_MAP_XML and of DTYPE_MAP_XML
XML_keys == {32768, 65526, 65527, 65528, 65529, 65530}

\* DTYPE_MAP_XML[typ]
DTYPE_MAP_XML(typ) ==
    CASE typ = 32768 -> Dtype("uint8", 1)
      [] typ = 65526 -> Dtype("float64", 8)
      [] typ = 65527 -> Dtype("float32", 4)
      [] typ = 65528 -> Dtype("int32", 4)
      [] typ = 65529 -> Dtype("int16", 2)
      [] typ = 65530 -> Dtype("int8", 1)

\* len(TYPE_MAP)
TYPE_MAP_len == 256

\* TYPE_MAP[typ], a list: an index below zero counts from its end
TYPE_MAP(typ) ==
    LET i == IF typ < 0 THEN TYPE_MAP_len + typ ELSE typ
    IN  CASE i < 251 -> IntTyp(i)
          [] i = 251 -> StrTyp("b")
          [] i = 252 -> StrTyp("h")
          [] i = 253 -> StrTyp("l")
          [] i = 254 -> StrTyp("f")
          [] i = 255 -> StrTyp("d")

\* TYPE_MAP_XML[typ]
TYPE_MAP_XML(typ) ==
    CASE typ = 32768 -> StrTyp("Q")
      [] typ = 65526 -> StrTyp("d")
      [] typ = 65527 -> StrTyp("f")
      [] typ = 65528 -> StrTyp("l")
      [] typ = 65529 -> StrTyp("h")
      [] typ = 65530 -> StrTyp("b")

\* the keys of OLD_TYPE_MAPPING
OLD_TYPE_MAPPING_keys == {98, 105, 108, 102, 100}

\* OLD_TYPE_MAPPING[tp]
OLD_TYPE_MAPPING(tp) ==
    CASE tp = 98 -> 251
      [] tp = 105 -> 252
      [] tp = 108 -> 253
      [] tp = 102 -> 254
      [] tp = 100 -> 255

\* the list typlist of _read_old_header, made of the bytes of the file
old_typlist(v, raw) ==
    IF v > 108 THEN raw
    ELSE [i \in 1..Len(raw) |->
             IF raw[i] \in OLD_TYPE_MAPPING_keys THEN OLD_TYPE_MAPPING(raw[i])
             ELSE raw[i] - 127]

Schema(error, tl, dl) == [state |-> "done", error |-> error, typlist |-> tl, dtyplist |-> dl]

\* the descriptors of _read_old_header: both lookups sit in a try whose
\* except clause names ValueError, which neither raises; the list lookup
\* finds every code of a byte, the dict lookup raises KeyError
read_old_types(v, raw) ==
    LET typlist_ == old_typlist(v, raw)
        n == Len(typlist_)
    IN  IF \E i \in 1..n : typlist_[i] < 0 - TYPE_MAP_len \/ typlist_[i] >= TYPE_MAP_len
        THEN Schema(Error("IndexError", ""), <<>>, <<>>)
        ELSE IF \E i \in 1..n : typlist_[i] \notin DTYPE_MAP_keys
        THEN Schema(Error("KeyError", ""), <<>>, <<>>)
        ELSE Schema(None, [i \in 1..n |-> TYPE_MAP(typlist_[i])],
                    [i \in 1..n |-> DTYPE_MAP(typlist_[i])])

\* _get_dtypes
get_dtypes(raw) ==
    LET n == Len(raw)
        f(typ) == IF typ <= 2045 THEN IntTyp(typ) ELSE TYPE_MAP_XML(typ)
        g(typ) == IF typ <= 2045 THEN Dtype("str", typ) ELSE DTYPE_MAP_XML(typ)
    IN  IF \E i \in 1..n : raw[i] > 2045 /\ raw[i] \notin XML_keys
        THEN Schema(Error("ValueError", "cannot convert stata types"), <<>>, <<>>)
        ELSE Schema(None, [i \in 1..n |-> f(raw[i])], [i \in 1..n |-> g(raw[i])])

\* type codes a file of the version may hold in a descriptor
Codes(v) ==
    IF v \in NewVersions
    THEN {0, 1, 2045, 2046, 32768, 32769, 65525, 65526, 65530, 65531, 65535}
    ELSE IF v > 108 THEN {0, 1, 244, 245, 250, 251, 255}
    ELSE {0, 98, 100, 102, 105, 108, 127, 128, 255}

NotRead == [state |-> "none", error |-> None, typlist |-> <<>>, dtyplist |-> <<>>]

\* a file whose header parses up to the descriptors
InitTypes ==
    /\ format_version \in {v \in OldVersions \cup NewVersions : v > 104}
    /\ \E n \in 1..MaxTypes : raw_typlist \in [1..n -> Codes(format_version)]
    /\ schema = NotRead

\* _read_old_header reads the descriptors
ReadOldTypes ==
    /\ schema.state = "none"
    /\ format_version \in OldVersions
    /\ schema' = read_old_types(format_version, raw_typlist)
    /\ UNCHANGED <<format_version, raw_typlist, rvars, wvars, cvars, svars,
                   mvars, kvars, xvars>>

\* _read_new_header calls _get_dtypes
GetDtypes ==
    /\ schema.state = "none"
    /\ format_version \in NewVersions
    /\ schema' = get_dtypes(raw_typlist)
    /\ UNCHANGED <<format_version, raw_typlist, rvars, wvars, cvars, svars,
                   mvars, kvars, xvars>>

NextTypes == ReadOldTypes \/ GetDtypes

\* ------------------------------------------------------ padding
\* _pad_bytes and _pad_bytes_new, given a source and a length.  A source is
\* a str or a bytes object: its code points or its bytes.

MaxPad == 3

\* bytes(name, "utf-8"), for code points below 2048: the bytes of the
\* first half of the text, then those of the second half
RECURSIVE utf8(_)
utf8(name) ==
    IF name = <<>> THEN <<>>
    ELSE IF Len(name) = 1
    THEN (IF name[1] < 128 THEN <<name[1]>>
          ELSE <<192 + (name[1] \div 64), 128 + (name[1] % 64)>>)
    ELSE LET half == Len(name) \div 2
         IN  utf8(SubSeq(name, 1, half))
             \o utf8(SubSeq(name, half + 1, Len(name)))

\* "\x00" * k: nothing when k is zero or negative
Zeros(k) == IF k <= 0 THEN <<>> ELSE [i \in 1..k |-> 0]

\* what a helper leaves: the value returned, or the exception
Padded(fn, error, value) == [fn |-> fn, error |-> error, value |-> value]

NotPadded == Padded("none", None, <<>>)

\* _pad_bytes(name, length): the same expression for a str and for bytes
pad_bytes(name, length) ==
    Padded("_pad_bytes", None, name.text \o Zeros(length - Len(name.text)))

\* _pad_bytes_new(name, length): a str is encoded first
pad_bytes_new(name, length) ==
    LET encoded == IF name.str THEN utf8(name.text) ELSE name.text
    IN  Padded("_pad_bytes_new", None,
               encoded \o Zeros(length - Len(encoded)))

PadAlphabet == {97, 233}     \* a, e with acute accent

PadTexts == UNION {[1..n -> PadAlphabet] : n \in 0..MaxPad}

InitPad ==
    /\ pad_name \in {[str |-> s, text |-> t] : s \in BOOLEAN, t \in PadTexts}
    /\ pad_length \in 0..MaxPad
    /\ padded = NotPadded

PadBytes ==
    /\ padded = NotPadded
    /\ padded' = pad_bytes(pad_name, pad_length)
    /\ UNCHANGED <<pad_name, pad_length, dvars, lvars, rvars, wvars, cvars,
                   svars, mvars, kvars, tvars>>

PadBytesNew ==
    /\ padded = NotPadded
    /\ padded' = pad_bytes_new(pad_name, pad_length)
    /\ UNCHANGED <<pad_name, pad_length, dvars, lvars, rvars, wvars, cvars,
                   svars, mvars, kvars, tvars>>

NextPad == PadBytes \/ PadBytesNew

\* ------------------------------------------------------ dates
\* An elapsed count of one of the units %tw, %tm, %tq, %th, %ty, decoded by
\* _stata_elapsed_date_to_datetime_vec and encoded again by
\* _datetime_to_stata_elapsed_vec.  A date is a day of the calendar.

MaxCount == 60

stata_epoch_year == 1960
MIN_YEAR == 1677
MAX_YEAR == 2262
\* the years datetime.datetime takes
MINYEAR == 1
MAXYEAR == 9999

Date(y, m, d) == [year |-> y, month |-> m, day |-> d]

IsLeap(y) == (y % 4 = 0 /\ y % 100 # 0) \/ y % 400 = 0

DaysInMonth(y, m) ==
    IF m = 2 THEN (IF IsLeap(y) THEN 29 ELSE 28)
    ELSE IF m \in {4, 6, 9, 11} THEN 30 ELSE 31

\* the day that lies `days` days after the first of month m of year y
RECURSIVE PlusDays(_, _, _)
PlusDays(y, m, days) ==
    IF days < DaysInMonth(y, m) THEN Date(y, m, days + 1)
    ELSE IF m = 12 THEN PlusDays(y + 1, 1, days - DaysInMonth(y, m))
    ELSE PlusDays(y, m + 1, days - DaysInMonth(y, m))

\* the days between the first of January and the first of month m
RECURSIVE DaysBefore(_, _)
DaysBefore(y, m) ==
    IF m = 1 THEN 0 ELSE DaysBefore(y, m - 1) + DaysInMonth(y, m - 1)

\* date - datetime(date.year, 1, 1), in days
DaysInYear(date) == DaysBefore(date.year, date.month) + date.day - 1

\* a Series of one date: its dtype and the date, or the exception raised
Conv(kind, error, date) == [kind |-> kind, error |-> error, date |-> date]

NotDecoded == Conv("none", None, Date(0, 0, 0))

DateRaises == Conv("none", Some("ValueError"), Date(0, 0, 0))

convert_year_month_safe(year, month) ==
    IF year < MAX_YEAR /\ year > MIN_YEAR
    THEN Conv("datetime64", None, Date(year, month, 1))
    ELSE IF year \in MINYEAR..MAXYEAR
         THEN Conv("datetime", None, Date(year, month, 1))
         ELSE DateRaises

convert_year_days_safe(year, days) ==
    IF year < MAX_YEAR - 1 /\ year > MIN_YEAR
    THEN Conv("datetime64", None, PlusDays(year, 1, days))
    ELSE IF year \in MINYEAR..MAXYEAR
         THEN Conv("datetime", None, PlusDays(year, 1, days))
         ELSE DateRaises

\* the branches of the units: // and % of Python round to minus infinity,
\* as \div and % do
stata_elapsed_date_to_datetime_vec(dates, fmt) ==
    IF fmt = "%tw"
    THEN convert_year_days_safe(stata_epoch_year + (dates \div 52),
                                (dates % 52) * 7)
    ELSE IF fmt = "%tm"
    THEN convert_year_month_safe(stata_epoch_year + (dates \div 12),
                                 (dates % 12) + 1)
    ELSE IF fmt = "%tq"
    THEN convert_year_month_safe(stata_epoch_year + (dates \div 4),
                                 (dates % 4) * 3 + 1)
    ELSE IF fmt = "%th"
    THEN convert_year_month_safe(stata_epoch_year + (dates \div 2),
                                 (dates % 2) * 6 + 1)
    ELSE convert_year_month_safe(dates, 1)

\* d["year"], d["month"], d["days"] of a date, by the dtype of the Series
parse_dates_safe(dates) ==
    IF dates.kind = "datetime64"
    THEN [year |-> dates.date.year, month |-> dates.date.month,
          days |-> DaysInYear(dates.date)]
    ELSE LET year_month == 100 * dates.date.year + dates.date.month
             year == year_month \div 100
         IN  [year |-> year, month |-> year_month - year * 100,
              days |-> DaysInYear(dates.date)]

datetime_to_stata_elapsed_vec(dates, fmt) ==
    LET d == parse_dates_safe(dates)
    IN  IF fmt = "%tw"
        THEN 52 * (d.year - stata_epoch_year) + (d.days \div 7)
        ELSE IF fmt = "%tm"
        THEN 12 * (d.year - stata_epoch_year) + d.month - 1
        ELSE IF fmt = "%tq"
        THEN 4 * (d.year - stata_epoch_year) + ((d.month - 1) \div 3)
        ELSE IF fmt = "%th"
        THEN 2 * (d.year - stata_epoch_year) + (IF d.month > 6 THEN 1 ELSE 0)
        ELSE d.year

DateFmts == {"%tw", "%tm", "%tq", "%th", "%ty"}

InitDates ==
    /\ date_fmt \in DateFmts
    /\ sif \in -MaxCount..MaxCount
    /\ conv_dates = NotDecoded
    /\ elapsed = None

\* the reader converts the column
DecodeDate ==
    /\ conv_dates = NotDecoded
    /\ conv_dates' = stata_elapsed_date_to_datetime_vec(sif, date_fmt)
    /\ UNCHANGED <<date_fmt, sif, elapsed, pvars, lvars, rvars, wvars, cvars,
                   svars, mvars, kvars, tvars>>

\* a writer converts the column the reader returned
EncodeDate ==
    /\ conv_dates.kind # "none"
    /\ elapsed = None
    /\ elapsed' = Some(datetime_to_stata_elapsed_vec(conv_dates, date_fmt))
    /\ UNCHANGED <<date_fmt, sif, conv_dates, pvars, lvars, rvars, wvars,
                   cvars, svars, mvars, kvars, tvars>>

NextDates == DecodeDate \/ EncodeDate

\* ------------------------------------------------------ value labels
\* A categorical column given to a writer: StataWriter.__init__ builds its
\* StataValueLabel (through _prepare_pandas and _prepare_categoricals), and
\* write_file writes the table.  A category is a str, given by its code
\* points, or an integer.

MaxLabels == 2

MaxTextLen == 32000

StrCat(t) == [str |-> TRUE, text |-> t, value |-> 0]

IntCat(n) == [str |-> FALSE, text |-> <<>>, value |-> n]

\* the category, or str(category) of one that is no str
label_text(category) ==
    IF category.str THEN category.text ELSE Str(category.value)

\* category.encode(encoding), for code points below 256
encode(text, encoding) == IF encoding = "utf-8" THEN utf8(text) ELSE text

\* what one label adds to text_len, without the padding
text_len_step_nopad(category) == Len(category)

\* what one label adds to text_len
text_len_step(category) == Len(category) + 1

\* text_len after the first i labels
RECURSIVE text_len_after(_, _)
text_len_after(txt, i) ==
    IF i = 0 THEN 0 ELSE text_len_after(txt, i - 1) + text_len_step(txt[i])

NotBuilt ==
    [state |-> "new", error |-> None, off |-> <<>>, val |-> <<>>,
     txt |-> <<>>, n |-> 0, text_len |-> 0, len |-> 0, warnings |-> 0]

StataValueLabel(cat) ==
    LET categories == cat.categories
        n == Len(categories)
        txt == [i \in 1..n |->
                   encode(label_text(categories[i]), cat.encoding)]
        text_len == text_len_after(txt, n)
        warnings == Cardinality({i \in 1..n : ~categories[i].str})
    IN  IF text_len > MaxTextLen
        THEN [NotBuilt EXCEPT !.state = "raised",
                              !.error = Some("ValueError"),
                              !.warnings = warnings]
        ELSE [state |-> "built", error |-> None,
              off |-> [i \in 1..n |-> text_len_after(txt, i - 1)],
              val |-> [i \in 1..n |-> i - 1],
              txt |-> txt, n |-> n, text_len |-> text_len,
              len |-> 4 + 4 + 4 * n + 4 * n + text_len,
              warnings |-> warnings]

\* the number of bytes generate_value_label returns
generate_value_label(table, encoding) ==
    LET lab_len == IF encoding # "utf-8" THEN 32 ELSE 128
    IN  4 + (lab_len + 1) + 3 + 4 + 4 + 4 * Len(table.off)
          + 4 * Len(table.val)
          + SumSeq([i \in 1..Len(table.txt) |-> Len(table.txt[i]) + 1])

LabelCats ==
    {IntCat(1), StrCat(<<49>>), StrCat(<<233>>)}
    \cup {StrCat(Filler(n)) :
            n \in {MaxTextLen - 3, MaxTextLen - 1, MaxTextLen}}

\* the categories of a Categorical are distinct
CatLists ==
    UNION {{c \in [1..n -> LabelCats] :
              \A i, j \in 1..n : i # j => c[i] # c[j]} : n \in 1..MaxLabels}

InitLabels ==
    /\ catarray \in {[categories |-> c, encoding |-> e] :
                        c \in CatLists, e \in {"latin-1", "utf-8"}}
    /\ svl = NotBuilt
    /\ lstream = "none"
    /\ lbytes = 0

\* StataWriter(fname, data): the table is built, no file is opened
NewStataValueLabel ==
    /\ svl = NotBuilt
    /\ svl' = StataValueLabel(catarray)
    /\ UNCHANGED <<catarray, lstream, lbytes, pvars, dvars, rvars, wvars,
                   cvars, svars, mvars, kvars, tvars>>

\* write_file of the writer constructed: the output is opened, the table
\* written (of all that is written, only the table is counted) and the
\* output closed
WriteLabelTable ==
    /\ svl.state = "built"
    /\ lstream = "none"
    /\ lstream' = "closed"
    /\ lbytes' = generate_value_label(svl, catarray.encoding)
    /\ UNCHANGED <<catarray, svl, pvars, dvars, rvars, wvars, cvars, svars,
                   mvars, kvars, tvars>>

NextLabels == NewStataValueLabel \/ WriteLabelTable

\* ------------------------------------------------------ specifications
vars == <<rvars, wvars, cvars, svars, mvars, kvars, tvars, xvars>>

\* the writer, not yet constructed, while the reader runs
IdleWriter ==
    /\ dta_version = 114 /\ target = "buffer" /\ nvar = 1 /\ wnobs = 0
    /\ ncat = 0 /\ wfault = "none" /\ unlink_fails = FALSE
    /\ flush_fails = FALSE
    /\ wpc = "new" /\ handle = "open" /\ own_file = TRUE
    /\ output_file = FALSE /\ pos = 0 /\ written = <<>> /\ map = EmptyMap
    /\ flushed = FALSE /\ disk = "none" /\ exc = None /\ raised = None
    /\ warned = FALSE

\* the reader, not yet constructed, while the writer runs
IdleReader ==
    /\ fileVersion = 114 /\ nobs = 0 /\ typlist = <<"b">> /\ chunksize = None
    /\ convert_categoricals = FALSE /\ fault = "none"
    /\ reader = NewReader /\ last = NoCall /\ onlyNext = TRUE /\ chunks = <<>>

\* the column-name check, not yet called
IdleNames ==
    /\ columns_in = <<>> /\ dates_in = {}
    /\ checked = NotChecked
    /\ rechecked = NotChecked

\* no strL column converted
NoStrl ==
    /\ strl_version = 117 /\ byteorder = "<"
    /\ place = <<0, 0>> /\ cells = <<>> /\ spc = "new"
    /\ gso_table = <<>> /\ keys = <<>> /\ blob = <<>> /\ cell_bytes = <<>>
    /\ GSO = <<>> /\ strl_out = NoStrlOut

IdleStrl == NoStrl /\ native = "<"

\* the tables of StataMissingValue, left out while another part runs
IdleMissing ==
    /\ mpc = [loop |-> "idle", b |-> 0, i |-> 0]
    /\ MISSING_VALUES = NoValues
    /\ float32_base = <<>> /\ float64_base = <<>>
    /\ BASE_MISSING_VALUES = NoValues
    /\ sentinels = <<>>
    /\ converted = NotConverted

\* no column given to _cast_to_stata_types
IdleCast ==
    /\ column = Column("bool", SignedOf(0), SignedOf(0))
    /\ casted = NotCasted

\* no descriptors read
IdleTypes ==
    /\ format_version = 114 /\ raw_typlist = <<>> /\ schema = NotRead

\* the parts that a specification of another part leaves idle
\* no field padded, no date converted, no value labels built
IdlePad ==
    /\ pad_name = [str |-> FALSE, text |-> <<>>] /\ pad_length = 0
    /\ padded = NotPadded

IdleDates ==
    /\ date_fmt = "%ty" /\ sif = 0 /\ conv_dates = NotDecoded /\ elapsed = None

IdleLabels ==
    /\ catarray = [categories |-> <<>>, encoding |-> "latin-1"]
    /\ svl = NotBuilt /\ lstream = "none" /\ lbytes = 0

IdleExtra == IdlePad /\ IdleDates /\ IdleLabels

IdleRest == IdleMissing /\ IdleCast /\ IdleTypes /\ IdleExtra

Init == InitReader /\ IdleWriter /\ IdleNames /\ IdleStrl /\ IdleRest

Spec == Init /\ [][Next]_vars

InitW == InitWriter /\ IdleReader /\ IdleNames /\ IdleStrl /\ IdleRest

SpecWriter == InitW /\ [][NextWriter]_vars

InitN == InitNames /\ IdleReader /\ IdleWriter /\ IdleStrl /\ IdleRest

SpecNames == InitN /\ [][NextNames]_vars

InitS == InitStrl /\ IdleReader /\ IdleWriter /\ IdleNames /\ IdleRest

SpecStrl == InitS /\ [][NextStrl]_vars

InitM ==
    /\ InitMissing /\ IdleReader /\ IdleWriter /\ IdleNames /\ NoStrl
    /\ IdleCast /\ IdleTypes /\ IdleExtra

SpecMissing == InitM /\ [][NextMissing]_vars

InitK ==
    /\ InitCast /\ IdleReader /\ IdleWriter /\ IdleNames /\ IdleStrl
    /\ IdleMissing /\ IdleTypes /\ IdleExtra

SpecCast == InitK /\ [][NextCast]_vars

InitT ==
    /\ InitTypes /\ IdleReader /\ IdleWriter /\ IdleNames /\ IdleStrl
    /\ IdleMissing /\ IdleCast /\ IdleExtra

SpecTypes == InitT /\ [][NextTypes]_vars

IdleOld ==
    /\ IdleReader /\ IdleWriter /\ IdleNames /\ IdleStrl
    /\ IdleMissing /\ IdleCast /\ IdleTypes

InitP == InitPad /\ IdleOld /\ IdleDates /\ IdleLabels

SpecPad == InitP /\ [][NextPad]_vars

InitD == InitDates /\ IdleOld /\ IdlePad /\ IdleLabels

SpecDates == InitD /\ [][NextDates]_vars

InitL == InitLabels /\ IdleOld /\ IdlePad /\ IdleDates

SpecLabels == InitL /\ [][NextLabels]_vars

\* ------------------------------------------------- claims on the reader
RECURSIVE Flatten(_)
Flatten(cs) == IF cs = <<>> THEN <<>> ELSE Head(cs).rows \o Flatten(Tail(cs))

\* the table one read() with no row count returns on a fresh reader of the file
WholeRead ==
    read(init(NewReader, fileVersion).r, "read", None, fileVersion, nobs,
         typlist, convert_categoricals, fault).out

\* a session made of the construction and __next__ calls only, on a file
\* whose chunks convert
IteratorSession ==
    /\ reader.state = "ready"
    /\ onlyNext
    /\ chunksize # None
    /\ fault = "none"

EndOfStreamIsStopIteration ==
    (IteratorSession /\ last.op = "next" /\ last.rem = 0)
        => last.kind = "StopIteration"

\* C3: read() with no row count, called with no rows remaining, returns an
\* empty table.
ReadWithNoRowsIsEmptyTable ==
    (reader.state = "ready" /\ last.op = "read" /\ last.nrows = None
        /\ last.rem = 0)
        => (last.kind = "table" /\ last.rows = <<>>)

\* C4: every table returned for a file of version 117-119 with a strL column
\* holds the pooled strings in that column.
StrlsAlwaysResolved ==
    (last.kind = "table" /\ last.rows # <<>>
        /\ \E i \in 1..Len(typlist) : typlist[i] = "Q")
        => last.strl = "strings"

\* C9: the stream is closed whenever the session has ended: the construction
\* failed, read_stata returned a table or raised, end-of-stream was
\* signalled, or the conversion of a chunk raised.
StreamClosedOnEveryExit ==
    (\/ reader.state = "failed"
     \/ reader.state = "dropped"
     \/ last.kind = "StopIteration"
     \/ (last.kind = "ValueError" /\ last.why \in {"columns", "dates", "labels"}))
        => reader.stream = "closed"

\* ------------------------------------------------- claims on the writer
\* a step of write_file raised, and an exception has left write_file
WriteFileFailed == wpc = "raised" /\ exc # None

\* C5: when a step of write_file fails, then with the error propagated the
\* stream is flushed and, if the writer opened it, closed; the file is
\* deleted exactly when the writer created it from a path; a buffer of the
\* caller is neither closed nor deleted; the exception raised is the one the
\* step raised.
FailureDeletesOwnFile ==
    WriteFileFailed =>
        /\ flushed
        /\ own_file => handle = "closed"
        /\ (disk = "deleted") <=> own_file
        /\ target = "buffer" => (handle = "open" /\ disk = "none")
        /\ raised = exc

\* C6: a ValueError of the writer is raised with nothing written.
ValidationBeforeAnyByte ==
    (exc = Some("ValueError") \/ raised = Some("ValueError")) => written = <<>>

\* the sections written so far, in the order of the writes
Emitted == [i \in 1..Len(written) |-> written[i].sec]

IsPrefix(s, t) == Len(s) <= Len(t) /\ s = SubSeq(t, 1, Len(s))

\* the sections of seq that the version writes
Present(seq) == SelectSeq(seq, LAMBDA c : Writes(c, dta_version, ncat))

\* C7, as stated: the header, the six schema arrays, the map, the data, the
\* strls, the value labels and the close tag are written in that order: what
\* is written of them is at every moment a prefix of that list, and all of it
\* when the write is done.
SectionsInStatedOrder ==
    LET stated == <<"header", "variable_types", "varnames", "sortlist",
                    "formats", "value_label_names", "variable_labels", "map",
                    "data", "strls", "value_labels", "file_close_tag">>
        ofThem == SelectSeq(Emitted, LAMBDA c : c \in RangeOf(stated))
    IN  /\ IsPrefix(ofThem, Present(stated))
        /\ wpc = "done" => ofThem = Present(stated)

\* C7, amended: the map follows the header, before the schema arrays, and is
\* written once more after the close tag; expansion fields (versions up to
\* 115) or characteristics (117-119) come between the variable labels and
\* the data.
SectionsInOrder ==
    LET order == <<"header", "map", "variable_types", "varnames", "sortlist",
                   "formats", "value_label_names", "variable_labels",
                   "expansion_fields", "characteristics", "data", "strls",
                   "value_labels", "file_close_tag">>
        all == Present(order) \o (IF Tagged(dta_version) THEN <<"map">> ELSE <<>>)
    IN  /\ IsPrefix(Emitted, all)
        /\ wpc = "done" => Emitted = all

\* a finished write of a tagged version with a value-label table
SectionsInOrderWitness ==
    /\ wpc = "done"
    /\ Tagged(dta_version)
    /\ ncat > 0
    /\ Len(written) = 14

\* the writes of the map
MapWrites == SelectSeq(written, LAMBDA w : w.sec = "map")

\* the position of the write of section c
WrittenAt(c) == written[CHOOSE i \in 1..Len(written) : written[i].sec = c].at

\* the last map holds the position of every section, of the close tag and of
\* the end of the file
FinalMapIsPatched ==
    LET last_map == MapWrites[2].map
        close_tag == CHOOSE i \in 1..Len(written) : written[i].sec = "file_close_tag"
    IN  /\ \A i \in 1..Len(MapTags) :
              LET t == MapTags[i]
              IN  last_map[i] =
                      IF t = "stata_data" THEN 0
                      ELSE IF t = "stata_data_close" THEN written[close_tag].at
                      ELSE IF t = "end-of-file"
                      THEN written[close_tag].at + written[close_tag].len
                      ELSE WrittenAt(t)
        /\ \A i \in 2..Len(MapTags) : last_map[i] # 0

\* the map is written at most twice, twice in a finished write, and both
\* times in the same place with the same length
MapWrittenTwiceInPlace ==
    /\ Len(MapWrites) <= 2
    /\ wpc = "done" => Len(MapWrites) = 2
    /\ Len(MapWrites) = 2 =>
          /\ MapWrites[1].at = MapWrites[2].at
          /\ MapWrites[1].len = MapWrites[2].len
          /\ written[Len(written)].sec = "map"

IsValidName(t) ==
    /\ \A i \in 1..Len(t) :
          \/ 65 <= t[i] /\ t[i] <= 90
          \/ 97 <= t[i] /\ t[i] <= 122
          \/ 48 <= t[i] /\ t[i] <= 57
          \/ t[i] = 95
    /\ Len(t) <= 32
    /\ Len(t) >= 1 => ~(48 <= t[1] /\ t[1] <= 57)
    /\ t \notin RESERVED_WORDS

\* C10: with no date conversion asked for, the check of the column names
\* never raises, and every name it leaves is a string of permitted
\* characters, at most 32 long, that starts with no digit and is no reserved
\* word.
CheckedNamesAreValid ==
    (checked.state # "new" /\ dates_in = {}) =>
        /\ checked.state = "done"
        /\ \A j \in 1..Len(checked.columns) :
              /\ checked.columns[j].str
              /\ IsValidName(checked.columns[j].text)

\* the names the check recorded as rewritten
Renamed(c) == IF c.converted_names = None THEN {} ELSE DOMAIN c.converted_names[1]

\* C11: the check of names that are already the result of the check raises
\* nothing, changes no name and records no replacement.
RecheckChangesNothing ==
    rechecked.state # "new" =>
        /\ rechecked.state = "done"
        /\ rechecked.columns = checked.columns
        /\ Renamed(rechecked) = {}

\* a list of two names, of which the first check rewrote one to a name that
\* is neither the name given nor the other name, checked again
RecheckChangesNothingWitness ==
    /\ rechecked.state = "done"
    /\ Len(columns_in) = 2
    /\ \E j \in 1..2 : checked.columns[j] # columns_in[j]
    /\ checked.columns[1] # checked.columns[2]

\* C12: once the writer is constructed, every column whose name the check
\* rewrote has its entry in the writer's _converted_names.
RenamesStayRecorded ==
    checked.state = "constructed" =>
        \A j \in 1..Len(columns_in) :
            checked.columns[j] # columns_in[j] => columns_in[j] \in Renamed(checked)

\* ------------------------------------------------ claims on the strL columns
\* the (v, o) the table holds for the string of cell (r, c)
PairOf(r, c) == Lookup(gso_table, TextOf(cells[r][c]))[1]

AllCells == {<<r, c>> \in (1..Len(cells)) \X StrlColumns : c <= Len(cells[1])}

ReaderFindsEveryCell ==
    /\ spc \in {"read", "inserted"} =>
          /\ \A i \in 2..Len(gso_table) :
                LET k == convert_key(gso_table[i].vo[1], gso_table[i].vo[2],
                                     strl_version)
                IN  k \in DOMAIN GSO /\ GSO[k] = gso_table[i].text
          /\ \A rc \in AllCells :
                unpack(cell_bytes[rc[1]][rc[2]], byteorder) \in DOMAIN GSO
    /\ spc = "inserted" =>
          /\ strl_out.error = None
          /\ \A rc \in AllCells :
                strl_out.rows[rc[1]][rc[2]] = TextOf(cells[rc[1]][rc[2]])

\* the strings of the cells that are not empty
NonEmptyTexts == {TextOf(cells[rc[1]][rc[2]]) : rc \in AllCells} \ {""}

\* the first cell, by row, that holds the text
FirstCell(text) ==
    CHOOSE rc \in AllCells :
        /\ TextOf(cells[rc[1]][rc[2]]) = text
        /\ \A x \in AllCells :
              TextOf(cells[x[1]][x[2]]) = text =>
                  (rc[1] < x[1] \/ (rc[1] = x[1] /\ rc[2] <= x[2]))

\* C15: the empty string and None have the key (0,0), of which the blob
\* holds no record; the blob holds one record for every distinct non-empty
\* string; a string has in every cell the key of its first cell; two
\* strings never have the same key.
OneRecordPerString ==
    spc # "new" =>
        /\ \A rc \in AllCells :
              LET text == TextOf(cells[rc[1]][rc[2]])
                  first == FirstCell(text)
              IN  /\ (text = "") => (PairOf(rc[1], rc[2]) = <<0, 0>>
                                     /\ keys[rc[1]][rc[2]] = Num(0))
                  /\ (text # "") =>
                        /\ PairOf(rc[1], rc[2]) =
                               <<place[1] + first[2], place[2] + first[1]>>
                        /\ keys[rc[1]][rc[2]] = keys[first[1]][first[2]]
                        /\ keys[rc[1]][rc[2]] # Num(0)
        /\ \A x, y \in AllCells :
              TextOf(cells[x[1]][x[2]]) # TextOf(cells[y[1]][y[2]])
                  => keys[x[1]][x[2]] # keys[y[1]][y[2]]
        /\ Len(blob) = Cardinality(NonEmptyTexts)
        /\ {blob[i].text : i \in 1..Len(blob)} = NonEmptyTexts
        /\ \A i \in 1..Len(blob) :
              ~(unpack(blob[i].v, native) = Num(0) /\ unpack(blob[i].o, native) = Num(0))

\* a table with an empty cell, a None cell and a string that occurs twice
OneRecordPerStringWitness ==
    /\ spc = "converted"
    /\ Len(cells) = 2 /\ Len(cells[1]) = 2
    /\ cells[1][1] = "" /\ cells[1][2] = "a"
    /\ cells[2][1] = "a" /\ cells[2][2] = "None"
    /\ Len(blob) = 1

\* ------------------------------------------- claims on the missing values
\* the entries the loops have made for one kind, in the order made
SentinelsOf(log, kind) ==
    LET at == {i \in 1..Len(log) : log[i].kind = kind}
    IN  [k \in 1..Cardinality(at) |->
            log[CHOOSE i \in at : Cardinality({j \in at : j < i}) = k - 1]]

Kinds == {"int8", "int16", "int32", "float32", "float64"}

\* the bit pattern of a sentinel as an unsigned integer
PatternOf(s) == unpack(s.bytes, "<")

\* the key of MISSING_VALUES a bit pattern of the kind is read as
KeyOf(kind, bs) ==
    IF kind = "float32" THEN unpack_f(bs)
    ELSE IF kind = "float64" THEN unpack_d(bs)
    ELSE IntValue(ToNat(bs))

TablesBuilt == mpc.loop \in {"base", "done"}

\* C16: for each of the five kinds the sentinel patterns entered so far are
\* strictly increasing, hence pairwise distinct, the i-th of them carries
\* the i-th of the labels '.', '.a', ..., '.z', the table maps each pattern
\* to that label, two patterns of a kind with one label are one pattern,
\* and once the tables are built each kind has exactly 27 sentinels and no
\* entry of the table has replaced another.
SentinelsDistinctAndLabelled ==
    /\ \A kind \in Kinds :
         LET ss == SentinelsOf(sentinels, kind)
         IN  /\ Len(ss) <= Labels27
             /\ \A i \in 1..Len(ss) :
                  /\ ss[i].label = MissingLabel(i - 1)
                  /\ KeyOf(kind, ss[i].bytes) \in DOMAIN MISSING_VALUES
                  /\ MISSING_VALUES[KeyOf(kind, ss[i].bytes)] = ss[i].label
                  /\ i > 1 => LessNum(PatternOf(ss[i - 1]), PatternOf(ss[i]))
             /\ \A i, j \in 1..Len(ss) :
                  ss[i].label = ss[j].label => ss[i].bytes = ss[j].bytes
             /\ TablesBuilt => Len(ss) = Labels27
    /\ \A i, j \in 0..(Labels27 - 1) : i # j => MissingLabel(i) # MissingLabel(j)
    /\ Cardinality(DOMAIN MISSING_VALUES) = Len(sentinels)

\* the tables are built: 27 sentinels of each of the five kinds, the last
\* of the float64 ones 00 00 00 00 00 1a e0 7f with the label '.z'
SentinelsDistinctAndLabelledWitness ==
    /\ mpc.loop = "done"
    /\ Len(sentinels) = 5 * Labels27
    /\ sentinels[Len(sentinels)] =
           Sentinel("float64", <<0, 0, 0, 0, 0, 26, 224, 127>>, <<46, 122>>)
    /\ SentinelsOf(sentinels, "float32")[2] =
           Sentinel("float32", <<0, 8, 0, 127>>, <<46, 97>>)

\* the label the built table gives the bit pattern of a cell
LabelOfCell(fmt, cell) ==
    IF cell \in DOMAIN MISSING_VALUES THEN MISSING_VALUES[cell] ELSE NoLabel

\* C17: a cell outside the valid range of its kind becomes, with
\* convert_missing, a StataMissingValue carrying the label of the cell's
\* pattern and the conversion raises nothing; without it the cell becomes
\* NaN.
ConvertMissingNeverFails ==
    (converted.state = "done" /\ IsMissing(converted.fmt, converted.cell)) =>
        IF converted.convert_missing
        THEN /\ converted.result.error = None
             /\ converted.result.out.t = "StataMissingValue"
             /\ converted.result.out.str = LabelOfCell(converted.fmt, converted.cell)
             /\ converted.result.out.str # NoLabel
        ELSE /\ converted.result.error = None
             /\ converted.result.out.t = "nan"

\* ------------------------------------------- claims on the cast
\* the kind a dtype of the frame is written as
FmtOf(dtype) == IF dtype = "int8" THEN "b" ELSE IF dtype = "int16" THEN "h" ELSE "l"

\* C18: after the type-casting pass an integer column is float64, or its
\* dtype is int8, int16 or int32 and its smallest and largest value lie in
\* the valid range of that kind, so that no value is written with the bit
\* pattern of a missing value.
CastKeepsValuesInRange ==
    casted.state = "done" =>
        \/ casted.dtype = "float64"
        \/ /\ casted.dtype \in {"int8", "int16", "int32"}
           /\ LeSigned(SignedOf(VALID_RANGE(FmtOf(casted.dtype))[1].n), column.min)
           /\ LeSigned(column.max, SignedOf(VALID_RANGE(FmtOf(casted.dtype))[2].n))

\* ------------------------------------------- claims on the versions
\* C19: the construction of a reader on a well-formed file succeeds when the
\* version field is one of 104, 105, 108, 111, 113, 114, 115, 117, 118, 119,
\* and raises the ValueError of the version test exactly when it is not.
TenVersionsAccepted ==
    last.op = "init" =>
        /\ fileVersion \in OldVersions \cup NewVersions => last.kind = "ok"
        /\ (last.kind = "ValueError" /\ last.why = "version")
               <=> fileVersion \notin OldVersions \cup NewVersions

\* ------------------------------------------- claims on the type codes
\* the typlist a header of the legacy versions is read into holds a code
\* that is neither 1..244 nor 251..255
UnknownOldCode ==
    /\ format_version \in OldVersions
    /\ \E i \in 1..Len(raw_typlist) :
         old_typlist(format_version, raw_typlist)[i] \notin (1..244) \cup (251..255)

\* a header of the versions 117 to 119 holds a code above 2045 that is
\* neither 32768 nor one of 65526..65530
UnknownNewCode ==
    /\ format_version \in NewVersions
    /\ \E i \in 1..Len(raw_typlist) :
         /\ raw_typlist[i] > 2045
         /\ raw_typlist[i] \notin {32768} \cup (65526..65530)

\* C20: when a type code of the header lies outside all known ranges, the
\* reading of the descriptors raises the ValueError whose message starts
\* 'cannot convert stata types'.
UnknownCodeIsValueError ==
    (schema.state = "done" /\ (UnknownOldCode \/ UnknownNewCode)) =>
        schema.error = Error("ValueError", "cannot convert stata types")

\* ------------------------------------------- claims on the reader's cursor
\* the last call was a read, a __next__ or a get_chunk that reached read()
ReadCall ==
    /\ reader.state = "ready"
    /\ last.op \in {"read", "next", "get_chunk"}
    /\ last.why # "chunksize"

\* the rows the last call asked for: nrows, or every row when it gave none
Requested == IF last.nrows = None THEN nobs ELSE last.nrows[1]

\* the cursor before the last call, and the rows the call consumed
LinesBefore == nobs - last.rem
Consumed == reader.lines_read - LinesBefore

\* the rows of the table returned are those at the cursor it was called with
RowsFromCursor ==
    last.kind = "table" =>
        /\ Len(last.rows) = Consumed
        /\ \A i \in 1..Len(last.rows) : last.rows[i].obs = LinesBefore + i - 1

\* C26 as stated: after any read, __next__ or get_chunk the cursor lies in
\* 0..nobs and has not decreased, the call consumed min(n, r) rows from the
\* cursor, and _data_read is set exactly when the cursor is at nobs.
CursorConsumesMinOfRequest ==
    ReadCall =>
        /\ reader.lines_read \in 0..nobs
        /\ Consumed >= 0
        /\ Consumed = Min(Requested, last.rem)
        /\ RowsFromCursor
        /\ reader.data_read <=> reader.lines_read = nobs

\* C26 as the code has it: the cursor lies in 0..nobs and never decreases; a
\* call that finds the stream closed or asks for no row or fewer consumes
\* nothing, any other consumes min(n, r) rows from the cursor, also when the
\* conversion of the rows then raises; _data_read is set only with the
\* cursor at nobs, and is set whenever the cursor is at nobs in a file that
\* has observations.
CursorAdvancesByRowsRead ==
    /\ reader.lines_read \in 0..nobs
    /\ reader.data_read => reader.lines_read = nobs
    /\ (nobs > 0 /\ reader.lines_read = nobs) => reader.data_read
    /\ ReadCall =>
         /\ Consumed >= 0
         /\ Consumed = IF last.why = "closed file" \/ Requested <= 0
                       THEN 0 ELSE Min(Requested, last.rem)
         /\ RowsFromCursor

\* a second call has returned a table of fewer rows than it asked for, the
\* rows that remained, and the cursor is at nobs with _data_read set
CursorAdvancesByRowsReadWitness ==
    /\ ReadCall
    /\ last.kind = "table"
    /\ LinesBefore > 0
    /\ Requested > last.rem
    /\ Consumed = last.rem
    /\ reader.data_read

\* C30: with observations still unread, a read, __next__ or get_chunk that
\* raises no conversion error does not signal end-of-stream, and leaves the
\* stream open when it returns a table, whatever row count it was given.
UnreadRowsStayReadable ==
    (ReadCall /\ last.rem > 0 /\ last.why \notin {"columns", "dates", "labels"}) =>
        /\ last.kind # "StopIteration"
        /\ last.kind = "table" => reader.stream = "open"

\* ------------------------------------------- claims on the renamed columns
Distinct(seq) == \A i, j \in 1..Len(seq) : i # j => seq[i] # seq[j]

\* the check has returned
Checked == checked.state \in {"done", "constructed"}

\* C27: when the column names given are pairwise distinct and the check
\* returns, the names it leaves are pairwise distinct, a name it did not
\* rewrite is left as given, and a name it rewrote is recorded with the
\* name that replaced it.
CheckedNamesAreDistinct ==
    (Checked /\ Distinct(columns_in)) =>
        /\ Distinct(checked.columns)
        /\ Len(checked.columns) = Len(columns_in)
        /\ checked.state = "done" =>
             \A j \in 1..Len(columns_in) :
                 IF columns_in[j] \in Renamed(checked)
                 THEN checked.columns[j] = Name(checked.converted_names[1][columns_in[j]])
                 ELSE checked.columns[j] = columns_in[j]

\* the labels 1 and "1" are both rewritten to "_1": the second meets the
\* first, already rewritten, and is given the prefix "_0"
CheckedNamesAreDistinctWitness ==
    /\ checked.state = "done"
    /\ columns_in = <<[str |-> FALSE, text |-> <<49>>], Name(<<49>>)>>
    /\ checked.columns = <<Name(<<95, 49>>), Name(<<95, 48, 95, 49>>)>>

\* C28: with date conversions asked for, the check returns without error,
\* and the conversions it leaves are those asked for, each under the name
\* the check left its column with.
DatesFollowRenames ==
    (checked.state # "new" /\ dates_in # {}
        /\ checked.error # Some("IndexError")) =>
        /\ Checked
        /\ DOMAIN checked.convert_dates =
               {checked.columns[j] : j \in {i \in 1..Len(columns_in) :
                                               columns_in[i] \in dates_in}}

\* ------------------------------------------- claims on the base values
\* C29: with the tables built, the base missing value of each of the five
\* kinds is the key of MISSING_VALUES labelled '.', the first sentinel
\* entered for the kind.
BaseMissingValueIsDot ==
    mpc.loop = "done" =>
        \A kind \in Kinds :
            LET base == get_base_missing_value(BASE_MISSING_VALUES, kind)
            IN  /\ base.error = None
                /\ base.value = KeyOf(kind, SentinelsOf(sentinels, kind)[1].bytes)
                /\ base.value \in DOMAIN MISSING_VALUES
                /\ MISSING_VALUES[base.value] = MissingLabel(0)

\* ------------------------------------------- claims on the byte order
\* C24: the v, o and length fields of every GSO record written are packed in
\* the byte order of the file, the order the cells of the data section are
\* packed in.
GsoFieldsInFileOrder ==
    spc # "new" =>
        /\ blob = generate_blob(gso_table, strl_version, byteorder)
        /\ spc # "converted" =>
             \A r \in 1..Len(keys) : \A c \in 1..Len(keys[r]) :
                 cell_bytes[r][c] = pack(keys[r][c], 8, byteorder)

\* the source of a padded field, in the units of the value returned
PadSource ==
    IF padded.fn = "_pad_bytes_new" /\ pad_name.str
    THEN utf8(pad_name.text) ELSE pad_name.text

\* C25: a padding helper that has been called returned exactly `length`
\* bytes, the source followed by zero bytes, when the source is at most
\* `length` long, and raised when the source is longer; no field returned
\* is longer than `length`.
PaddingIsExactOrRaises ==
    padded # NotPadded =>
        IF Len(PadSource) <= pad_length
        THEN /\ padded.error = None
             /\ Len(padded.value) = pad_length
             /\ padded.value = PadSource \o Zeros(pad_length - Len(PadSource))
        ELSE padded.error # None

\* C23: for each of the units %tw, %tm, %tq, %th, %ty and every count n,
\* negative ones included, decoding n gives a date, and encoding that date
\* gives n again.
DateCountsRoundTrip ==
    /\ conv_dates # NotDecoded => conv_dates.error = None
    /\ elapsed # None => elapsed = Some(sif)

\* the labels of the column as the file holds them: each one encoded and
\* followed by its zero byte
RECURSIVE LabelText(_)
LabelText(i) ==
    IF i = 0 THEN <<>>
    ELSE LabelText(i - 1)
         \o encode(label_text(catarray.categories[i]), catarray.encoding)
         \o <<0>>

CollidingLabelsRaise ==
    (/\ svl # NotBuilt
     /\ \E i, j \in 1..Len(catarray.categories) :
            /\ i # j
            /\ ~catarray.categories[i].str
            /\ label_text(catarray.categories[i])
                   = label_text(catarray.categories[j]))
    => svl.error # None /\ svl.state = "raised"

====
